---- MODULE Spec2Model ----
(***************************************************************************)
(* Model of the athkary-bot request pipeline and hadith API client.        *)
(*                                                                         *)
(*   rate limiter      src/unnamed/part_002  (middlewares/rateLimit.js)    *)
(*   auth gate         src/src/middlewares/auth.js                         *)
(*   hadith API client src/src/api/hadith.js                               *)
(*   cache / storage   src/src/utils/logger.js (database/index.js part)    *)
(*   text search       src/src/handlers/search.js                          *)
(*   error responder   src/src/ui/keyboards.js                             *)
(*   middleware chain  src/src/index.js, src/unnamed/part_001              *)
(*                                                                         *)
(* Each subsystem has its own specification over the shared variables:     *)
(* SpecRate, SpecAuth, SpecNorm, SpecProc, SpecSearch, SpecText,           *)
(* SpecCache, SpecLimit, SpecBlock, SpecRandom, SpecById, SpecError,       *)
(* SpecRespond, SpecSave, SpecPipeline, SpecGrade, SpecSource,             *)
(* SpecConcurrent, SpecIndependent, SpecSweep, SpecPreference.             *)
(***************************************************************************)
EXTENDS Integers, Sequences, FiniteSets, TLC

VARIABLES
  now,            \* Date.now(), in clock ticks
  rateLimitStore, \* part_002:10  Map key -> {requests, blocked, blockedUntil}
  rlLog,          \* history: per key, the limiter's decisions in order
  rlLast,         \* history: outcome of the latest rateLimitMiddleware call
  users,          \* the User table, by platform ID (prisma.user)
  authLast,       \* history: outcome of the latest authMiddleware call
  hadiths,        \* the Hadith table (prisma.hadith), a set of rows
  uuids,          \* number of identifiers uuidv4() has produced
  createdId,      \* history: dorarId -> the id its row was created with
  normLast,       \* history: the latest normalizeHadithData call
  procLast,       \* history: the latest processSearchResponse call
  cache,          \* the Cache table (prisma.cache): key -> data, expiresAt
  searchPrev,     \* history: the search call before the latest
  searchLast,     \* history: the latest search call
  handlerLast,    \* history: the latest handleTextSearch call
  getLast,        \* history: the latest direct db.cache.get call
  callArg,        \* the argument of the function call under study
  callRet         \* its outcome, once the call is done

rateVars == <<now, rateLimitStore, rlLog, rlLast>>
authVars == <<users, authLast>>
normVars == <<hadiths, uuids, createdId, normLast, procLast>>
searchVars == <<cache, searchPrev, searchLast, handlerLast, getLast>>
callVars == <<callArg, callRet>>

NotCalled == [done |-> FALSE]

Done(value) == [done |-> TRUE, value |-> value]

CallStart ==
  /\ callArg = NotCalled
  /\ callRet = NotCalled

(***************************************************************************)
(* Bounds of the model.  The configured request counts (30, 10, 100, 50,   *)
(* 100 per 60000 ms) are scaled down to small counts per Window ticks; all *)
(* six categories share one window length in the source (60000 ms).        *)
(***************************************************************************)
MaxTime == 3
MaxReq == 4
Window == 2
SearchRequests == 2
RandomRequests == 1
AdminRequests == 2
FavoriteRequests == 2
CommandRequests == 2
CallbackRequests == 3
MaxAge == 3

AdminMultiplier == 5
AdminId == 1

(***************************************************************************)
(* Contexts reaching the rate limiter.                                     *)
(*   from      ctx.from?.id, 0 when the update has no sender               *)
(*   user      ctx.user as left by the auth gate; id 0 = not attached      *)
(*   helpers   whether addContextHelpers ran (ctx.safeReply exists)        *)
(*   text, cb  ctx.message?.text and ctx.callbackQuery?.data               *)
(***************************************************************************)
NoText == "<none>"
NoCb == "<none>"
NoUser == [id |-> 0, telegramId |-> 0]

\* a callback query without data (a game button): callbackQuery.data undefined
NoData == "<no data>"

\* id column of the user row of a platform account (never a platform ID)
UserRecordId(tg) == tg + 10

SlashTexts == {"/search", "/SEARCH term", "/random", "/favorites", "/fav",
               "/admin", "/start", "/help me"}

\* part_002:121  text.split(' ')[0].toLowerCase()
Command(text) ==
  CASE text = "/SEARCH term" -> "/search"
    [] text = "/help me" -> "/help"
    [] OTHER -> text

StartsWithSlash(text) == text \in SlashTexts

RateTexts == {"/random", "/admin", NoText}

\* the administrator after a successful gate; the other sender with its row
\* and helpers, with its row alone, and with neither (gate failed open)
RateContexts ==
  { [from |-> 1, user |-> [id |-> UserRecordId(1), telegramId |-> 1],
     helpers |-> TRUE, text |-> t, cb |-> NoCb] : t \in {"/admin", NoText} }
  \cup
  { [from |-> 2, user |-> u, helpers |-> h, text |-> t, cb |-> NoCb] :
      u \in {NoUser, [id |-> UserRecordId(2), telegramId |-> 2]},
      h \in BOOLEAN, t \in RateTexts }
  \cup
  { [from |-> 0, user |-> NoUser, helpers |-> FALSE, text |-> NoText, cb |-> NoCb],
    [from |-> 2, user |-> [id |-> UserRecordId(2), telegramId |-> 2],
     helpers |-> TRUE, text |-> NoText, cb |-> NoData] }

\* contexts the pipeline can produce: the auth gate attaches the sender's own
\* row, and the helpers only after the row; without a sender it stops
ReachableContext(ctx) ==
  /\ ctx.user # NoUser => ctx.user.telegramId = ctx.from
  /\ ctx.helpers => ctx.user # NoUser

config_rateLimits ==
  [ search   |-> [requests |-> SearchRequests, window |-> Window],
    random   |-> [requests |-> RandomRequests, window |-> Window],
    favorite |-> [requests |-> FavoriteRequests, window |-> Window],
    admin    |-> [requests |-> AdminRequests, window |-> Window] ]

NoOperation == "<null>"

\* part_002:170  data.startsWith on undefined data: a TypeError
Thrown == "<TypeError>"

Operations == {"search", "random", "favorite", "admin", "command", "callback"}

\* String.prototype.startsWith on the callback data values of the model
CbStartsWith(data, prefix) ==
  CASE prefix = "search_"   -> data = "search_text"
    [] prefix = "nav_"      -> data = "nav_next"
    [] prefix = "favorite_" -> data = "favorite_add_1"
    [] prefix = "admin_"    -> data = "admin_users"
    [] OTHER                -> FALSE

\* a multiplier that leaves every limit as configured
MultiplierOne(isAdmin) == 1

\* part_002:117  isAdmin ? 5 : 1
Multiplier(isAdmin) == IF isAdmin THEN AdminMultiplier ELSE 1

determineRateLimit(ctx) ==
  LET isAdmin == ctx.user.telegramId = AdminId
      multiplier == Multiplier(isAdmin)
      none == [operation |-> NoOperation, limit |-> 0, window |-> 0]
      thrown == [operation |-> Thrown, limit |-> 0, window |-> 0]
      search == [operation |-> "search",
                 limit |-> config_rateLimits.search.requests * multiplier,
                 window |-> config_rateLimits.search.window]
      random == [operation |-> "random",
                 limit |-> config_rateLimits.random.requests * multiplier,
                 window |-> config_rateLimits.random.window]
      favorite == [operation |-> "favorite",
                   limit |-> config_rateLimits.favorite.requests * multiplier,
                   window |-> config_rateLimits.favorite.window]
      admin == [operation |-> "admin",
                limit |-> config_rateLimits.admin.requests,
                window |-> config_rateLimits.admin.window]
      command == [operation |-> "command",
                  limit |-> CommandRequests * multiplier, window |-> Window]
      callback == [operation |-> "callback",
                   limit |-> CallbackRequests * multiplier, window |-> Window]
      \* part_002:167-214, reached when the command switch did not return
      afterCommands ==
        IF ctx.cb # NoCb
          THEN IF ctx.cb = NoData THEN thrown
               ELSE IF CbStartsWith(ctx.cb, "search_") \/ CbStartsWith(ctx.cb, "nav_")
                 THEN search
               ELSE IF CbStartsWith(ctx.cb, "favorite_") THEN favorite
               ELSE IF CbStartsWith(ctx.cb, "admin_") /\ isAdmin THEN admin
               ELSE callback
        ELSE IF ctx.text # NoText /\ ~StartsWithSlash(ctx.text) THEN search
        ELSE none
  IN  IF ctx.text # NoText /\ StartsWithSlash(ctx.text)
        THEN CASE Command(ctx.text) = "/search" -> search
               [] Command(ctx.text) = "/random" -> random
               [] Command(ctx.text) \in {"/favorites", "/fav"} -> favorite
               [] Command(ctx.text) = "/admin" -> IF isAdmin THEN admin ELSE afterCommands
               [] OTHER -> command
        ELSE afterCommands

(***************************************************************************)
(* rateLimitMiddleware, part_002:15-109.                                   *)
(***************************************************************************)
NewWindow == [requests |-> <<>>, blocked |-> FALSE, blockedUntil |-> 0]

\* part_002:62-64  requests.filter(timestamp => currentTime - timestamp < window)
PruneRequests(requests, currentTime, window) ==
  LET Recent(timestamp) == currentTime - timestamp < window
  IN  SelectSeq(requests, Recent)

\* part_002:45  blocked && currentTime < blockedUntil
BlockActive(data, currentTime) ==
  data.blocked /\ currentTime < data.blockedUntil

LimitExceededOffByOne(count, limit) == count > limit

\* part_002:67  requests.length >= limit
LimitExceeded(count, limit) == count >= limit

\* part_002:17  ctx.user?.id || ctx.from?.id
RateUserId(ctx) == IF ctx.user.id # 0 THEN ctx.user.id ELSE ctx.from

\* ctx.safeReply(..) on a context without the helpers is a TypeError, which the
\* catch of part_002:101-108 turns into next()
ReplyOrFailOpen(ctx) == ~ctx.helpers

\* a catch that logs and ends the update there
FailClosed == [next |-> FALSE, error |-> TRUE]

\* part_002:101-108  the catch: log, then next()
FailOpen == [next |-> TRUE, error |-> TRUE]

\* part_002:53, 80  return ctx.safeReply(..)
Rejected(ctx) ==
  IF ReplyOrFailOpen(ctx) THEN FailOpen ELSE [next |-> FALSE, error |-> FALSE]

\* the milliseconds of a clock tick
TickMs == 700

\* a remaining time that is rounded down
remainingTimeFloor(blockedUntil, currentTime) ==
  ((blockedUntil - currentTime) * TickMs) \div 1000

\* part_002:46  Math.ceil((blockedUntil - currentTime) / 1000), for a
\* positive difference
remainingTime(blockedUntil, currentTime) ==
  ((blockedUntil - currentTime) * TickMs + 999) \div 1000

\* The outcome of one call at time currentTime on store: the new store, the
\* decision taken, whether next() was invoked, whether the catch ran and the
\* remaining seconds the blocked reply states.
rateLimitMiddleware(store, ctx, currentTime) ==
  LET userId == RateUserId(ctx)
      rl == determineRateLimit(ctx)
      key == <<userId, rl.operation>>
      data == IF key \in DOMAIN store THEN store[key] ELSE NewWindow
      pruned == PruneRequests(data.requests, currentTime, rl.window)
      put(d) == [k \in DOMAIN store \cup {key} |-> IF k = key THEN d ELSE store[k]]
  IN  IF userId = 0
        THEN [store |-> store, decision |-> "skip_no_user", next |-> TRUE,
              error |-> FALSE, key |-> key, rl |-> rl, remaining |-> 0]
      ELSE IF rl.operation = Thrown
        THEN [store |-> store, decision |-> "error", next |-> FailOpen.next,
              error |-> FailOpen.error, key |-> key, rl |-> rl, remaining |-> 0]
      ELSE IF rl.operation = NoOperation
        THEN [store |-> store, decision |-> "skip_no_operation", next |-> TRUE,
              error |-> FALSE, key |-> key, rl |-> rl, remaining |-> 0]
      ELSE IF BlockActive(data, currentTime)
        THEN [store |-> put(data), decision |-> "blocked",
              next |-> Rejected(ctx).next, error |-> Rejected(ctx).error,
              key |-> key, rl |-> rl,
              remaining |-> remainingTime(data.blockedUntil, currentTime)]
      ELSE IF LimitExceeded(Len(pruned), rl.limit)
        THEN [store |-> put([requests |-> pruned, blocked |-> TRUE,
                             blockedUntil |-> currentTime + rl.window]),
              decision |-> "limited", next |-> Rejected(ctx).next,
              error |-> Rejected(ctx).error, key |-> key, rl |-> rl, remaining |-> 0]
      ELSE [store |-> put([requests |-> Append(pruned, currentTime),
                           blocked |-> IF data.blocked /\ currentTime >= data.blockedUntil
                                         THEN FALSE ELSE data.blocked,
                           blockedUntil |-> IF data.blocked /\ currentTime >= data.blockedUntil
                                              THEN 0 ELSE data.blockedUntil]),
            decision |-> "allowed", next |-> TRUE, error |-> FALSE,
            key |-> key, rl |-> rl, remaining |-> 0]

Keyed(decision) == decision \in {"blocked", "limited", "allowed"}

LogOf(key) == IF key \in DOMAIN rlLog THEN rlLog[key] ELSE <<>>

RECURSIVE SumLen(_, _)
SumLen(f, ks) ==
  IF ks = {} THEN 0
  ELSE LET k == CHOOSE x \in ks : TRUE IN Len(f[k]) + SumLen(f, ks \ {k})

Logged == SumLen(rlLog, DOMAIN rlLog)

RateLimit(ctx) ==
  LET r == rateLimitMiddleware(rateLimitStore, ctx, now)
  IN  /\ ReachableContext(ctx)
      /\ Keyed(r.decision) => Logged < MaxReq
      /\ rateLimitStore' = r.store
      /\ rlLast' = [decision |-> r.decision, next |-> r.next, error |-> r.error,
                    remaining |-> r.remaining]
      /\ rlLog' =
           IF Keyed(r.decision)
             THEN [k \in DOMAIN rlLog \cup {r.key} |->
                     IF k = r.key
                       THEN Append(LogOf(k),
                                   [t |-> now, d |-> r.decision, limit |-> r.rl.limit,
                                    window |-> r.rl.window, next |-> r.next,
                                    remaining |-> r.remaining,
                                    blockedUntil |-> r.store[r.key].blockedUntil])
                       ELSE rlLog[k]]
             ELSE rlLog
      /\ now' = now

(***************************************************************************)
(* cleanupRateLimitStore, part_002:236-253, run by setInterval (:312).     *)
(***************************************************************************)
\* a sweep that evicts every window
cleanupEvictsAll(store, currentTime) == [k \in {} |-> NewWindow]

cleanupRateLimitStore(store, currentTime) ==
  LET swept(k) == [store[k] EXCEPT
                     !.requests = PruneRequests(@, currentTime, MaxAge)]
      keep == {k \in DOMAIN store :
                 ~(Len(swept(k).requests) = 0 /\ ~store[k].blocked)}
  IN  [k \in keep |-> swept(k)]

Cleanup ==
  /\ rateLimitStore' = cleanupRateLimitStore(rateLimitStore, now)
  /\ rateLimitStore' # rateLimitStore
  /\ UNCHANGED <<now, rlLog, rlLast>>

Tick ==
  /\ now < MaxTime
  /\ now' = now + 1
  /\ UNCHANGED <<rateLimitStore, rlLog, rlLast>>

EmptyMap == [k \in {} |-> <<>>]

RateStart ==
  /\ now = 0
  /\ rateLimitStore = EmptyMap
  /\ rlLog = EmptyMap
  /\ rlLast = [decision |-> "none", next |-> FALSE, error |-> FALSE, remaining |-> 0]

(***************************************************************************)
(* authMiddleware, auth.js:13-109.                                         *)
(*                                                                         *)
(* An update: from = ctx.from?.id (0: no sender), isBot = ctx.from.is_bot. *)
(* The environment of one call: whether db.user.findOrCreate, ctx.reply,   *)
(* the reactivation write and the downstream chain succeed or throw.       *)
(***************************************************************************)
BotId == 3

Senders == {1, 2, BotId}

NoRow == [id |-> 0, telegramId |-> 0, isBlocked |-> FALSE, isActive |-> FALSE,
          preferencesValid |-> TRUE]

\* logger.js:663-686  prisma.user.upsert: the existing row, or a new row
findOrCreate(table, from) ==
  IF table[from] # NoRow THEN table[from]
  ELSE [id |-> UserRecordId(from), telegramId |-> from, isBlocked |-> FALSE,
        isActive |-> TRUE, preferencesValid |-> TRUE]

AuthUpdates == [from : {0} \cup Senders, isBot : BOOLEAN]

AuthEnvs == [findOrCreateOk : BOOLEAN, replyOk : BOOLEAN, updateOk : BOOLEAN,
             nextOk : BOOLEAN]

\* a catch that logs and ends the update there
AuthCatchDrops(table, upd, row, attached, nextBefore, message) ==
  [users |-> table,
   out |-> [from |-> upd.from, row |-> row, message |-> message,
            next |-> nextBefore, caught |-> TRUE,
            user |-> attached, helpers |-> FALSE]]

\* auth.js:95-108  the catch: log, then next() once more, its error swallowed
AuthCatch(table, upd, row, attached, nextBefore, message) ==
  [users |-> table,
   out |-> [from |-> upd.from, row |-> row, message |-> message,
            next |-> nextBefore + 1, caught |-> TRUE,
            user |-> attached, helpers |-> FALSE]]

\* auth.js:41-48  user.isBlocked: reply and return
BlockedBranch(table, upd, env, row) ==
  IF env.replyOk
    THEN [users |-> table,
          out |-> [from |-> upd.from, row |-> row, message |-> "blocked",
                   next |-> 0, caught |-> FALSE, user |-> NoUser,
                   helpers |-> FALSE]]
    ELSE AuthCatch(table, upd, row, NoUser, 0, "blocked_failed")

\* a rule that drops every bot sender
AnyBot(upd) == upd.isBot

\* auth.js:25  telegramUser.is_bot && telegramUser.id !== ctx.botInfo?.id
OtherBot(upd) == upd.isBot /\ upd.from # BotId

authMiddleware(table, upd, env) ==
  LET dropped == [users |-> table,
                  out |-> [from |-> upd.from, row |-> NoRow, message |-> "none",
                           next |-> 0, caught |-> FALSE, user |-> NoUser,
                           helpers |-> FALSE]]
      row == findOrCreate(table, upd.from)
      found == [table EXCEPT ![upd.from] = row]
      active == [found EXCEPT ![upd.from].isActive = TRUE]
      attached == [id |-> row.id, telegramId |-> row.telegramId]
  IN  IF upd.from = 0 THEN dropped
      ELSE IF OtherBot(upd) THEN dropped
      ELSE IF ~env.findOrCreateOk
        THEN AuthCatch(table, upd, NoRow, NoUser, 0, "none")
      ELSE IF row.isBlocked THEN BlockedBranch(found, upd, env, row)
      ELSE IF ~row.isActive /\ ~env.updateOk
        THEN AuthCatch(found, upd, row, NoUser, 0, "none")
      ELSE IF ~row.preferencesValid
        THEN AuthCatch(active, upd, row, attached, 0, "none")
      ELSE IF ~env.nextOk
        THEN [users |-> active,
              out |-> [from |-> upd.from, row |-> row, message |-> "none",
                       next |-> 2, caught |-> TRUE, user |-> attached,
                       helpers |-> TRUE]]
      ELSE [users |-> active,
            out |-> [from |-> upd.from, row |-> row, message |-> "none",
                     next |-> 1, caught |-> FALSE, user |-> attached,
                     helpers |-> TRUE]]

Auth(upd, env) ==
  LET r == authMiddleware(users, upd, env)
  IN  /\ users' = r.users
      /\ authLast' = r.out @@ [isBot |-> upd.isBot, tableChanged |-> r.users # users]

\* rows the table can hold when the process starts
UserRows(tg) ==
  {NoRow} \cup
  { [id |-> UserRecordId(tg), telegramId |-> tg, isBlocked |-> b,
     isActive |-> a, preferencesValid |-> p] : b, a, p \in BOOLEAN }

\* isBot: from.is_bot of the update; tableChanged: whether the call changed
\* the user table
NoAuthCall == [from |-> 0, row |-> NoRow, message |-> "none", next |-> 0,
               caught |-> FALSE, user |-> NoUser, helpers |-> FALSE,
               isBot |-> FALSE, tableChanged |-> FALSE]

AuthStart ==
  /\ users = [tg \in Senders |-> NoRow]
  /\ authLast = NoAuthCall

(***************************************************************************)
(* Normalization and persistence of search results, hadith.js:192-402.     *)
(*                                                                         *)
(* A raw element of the response is null or an object; its fields hold     *)
(* text values, written as tokens: Undefined (field missing), the empty    *)
(* string, a blank string, a zero-width string, padded and plain texts, a  *)
(* presentation-form Arabic text, and a number.  id 0: field missing.      *)
(***************************************************************************)
MaxResp == 2
MaxUuid == 4

\* a string as the sequence of its characters; a value that is no string
Blank == " "

NotAString == [isString |-> FALSE, chars |-> <<>>]

Str(chars) == [isString |-> TRUE, chars |-> chars]

RECURSIVE TrimLeft(_)
TrimLeft(chars) ==
  IF chars # <<>> /\ Head(chars) = Blank THEN TrimLeft(Tail(chars)) ELSE chars

RECURSIVE TrimRight(_)
TrimRight(chars) ==
  IF chars # <<>> /\ chars[Len(chars)] = Blank
    THEN TrimRight(SubSeq(chars, 1, Len(chars) - 1))
    ELSE chars

\* String.prototype.trim
Trim(chars) == TrimRight(TrimLeft(chars))

Undefined == "<undefined>"
NumberValue == "<number>"

\* JavaScript truthiness of a field value, for the || chains
Falsy(v) == v \in {Undefined, ""}

OrElse(a, b) == IF Falsy(a) THEN b ELSE a

\* hadith.js:369-375  trim, collapse whitespace, strip zero-width characters
cleanText(text) ==
  IF Falsy(text) \/ text = NumberValue THEN ""
  ELSE CASE text = "   "      -> ""
         [] text = "<zwsp>"   -> ""
         [] text = " t1  x "  -> "t1 x"
         [] OTHER             -> text

\* hadith.js:377-384  the same, with NFKC normalization in between
cleanArabicText(text) ==
  IF Falsy(text) \/ text = NumberValue THEN ""
  ELSE CASE text = "   "        -> ""
         [] text = "<zwsp>"     -> ""
         [] text = " t1  x "    -> "t1 x"
         [] text = "<ar-pres>"  -> "<ar>"
         [] OTHER               -> text

NullElement == [isNull |-> TRUE, id |-> 0, hadith |-> Undefined, text |-> Undefined,
                arabic |-> Undefined, keywords |-> Undefined]

Element(id, hadith, text, arabic, keywords) ==
  [isNull |-> FALSE, id |-> id, hadith |-> hadith, text |-> text,
   arabic |-> arabic, keywords |-> keywords]

RawElements ==
  { NullElement,
    Element(1, "t1", Undefined, Undefined, Undefined),
    Element(1, "t2", Undefined, "<ar-pres>", "k1,k2"),
    Element(1, "t2", Undefined, Undefined, NumberValue),
    Element(1, "   ", "t1", Undefined, Undefined),
    Element(2, Undefined, " t1  x ", Undefined, Undefined),
    Element(2, Undefined, Undefined, "<zwsp>", Undefined),
    Element(0, Undefined, Undefined, "<ar-pres>", Undefined),
    Element(0, "", "", "", Undefined) }

\* response.data: an array of elements, or anything else
NotArray == [isArray |-> FALSE, items |-> <<>>]

ArrayOf(items) == [isArray |-> TRUE, items |-> items]

RECURSIVE SeqsUpTo(_, _)
SeqsUpTo(S, n) ==
  IF n = 0 THEN {<<>>}
  ELSE LET shorter == SeqsUpTo(S, n - 1)
       IN  shorter \cup {Append(q, x) : q \in {r \in shorter : Len(r) = n - 1}, x \in S}

Responses == {NotArray} \cup {ArrayOf(q) : q \in SeqsUpTo(RawElements, MaxResp)}

\* hadith.js:236  rawHadith.id?.toString() || null   (0: null)
DorarId(raw) == raw.id

\* hadith.js:234-250  evaluating the object literal throws a TypeError on a
\* null element (rawHadith.id) and on keywords that are neither array nor
\* string (extractKeywords, hadith.js:428-431)
NormalizeThrows(raw) == raw.isNull \/ raw.keywords = NumberValue

\* hadith.js:234-250  the fields of hadithData the model keeps
\* String.prototype.includes / prisma "contains" on the source names of the model
Contains(whole, part) ==
  \/ part = ""
  \/ whole = part
  \/ whole = "sahih bukhari" /\ part = "bukhari"

\* A source label is a string whose characters are blanks, zero-width
\* spaces and whole words (a word stands for its letters), or no string.
Zwsp == "<zwsp>"

\* undefined
Missing == [isString |-> FALSE, chars |-> <<"undefined">>]

\* a || b on the values of the model: undefined and '' are falsy
Either(a, b) == IF a = Missing \/ a = Str(<<>>) THEN b ELSE a

\* replace(/\s+/g, ' ')
RECURSIVE CollapseWhitespace(_)
CollapseWhitespace(chars) ==
  IF Len(chars) < 2 THEN chars
  ELSE IF chars[1] = Blank /\ chars[2] = Blank
    THEN CollapseWhitespace(Tail(chars))
  ELSE <<chars[1]>> \o CollapseWhitespace(Tail(chars))

\* replace(/[\u200B-\u200D\uFEFF]/g, '')
StripZeroWidth(chars) == SelectSeq(chars, LAMBDA c : c # Zwsp)

\* hadith.js:369-375 on a value spelled out in characters
cleanTextChars(text) ==
  IF ~text.isString \/ text.chars = <<>> THEN Str(<<>>)
  ELSE Str(StripZeroWidth(CollapseWhitespace(Trim(text.chars))))

\* String.prototype.includes
Includes(chars, part) ==
  \E i \in 0..(Len(chars) - Len(part)) : SubSeq(chars, i + 1, i + Len(part)) = part

\* hadith.js:455-464  the eight names, their words separated by one blank
verifiedSources ==
  { <<"sahih", Blank, "bukhari">>, <<"sahih", Blank, "muslim">>,
    <<"sunan", Blank, "abi", Blank, "dawud">>, <<"jami", Blank, "tirmidhi">>,
    <<"sunan", Blank, "nasai">>, <<"sunan", Blank, "ibn", Blank, "majah">>,
    <<"musnad", Blank, "ahmad">>, <<"muwatta", Blank, "malik">> }

\* hadith.js:452-469
isVerifiedSource(source) ==
  IF ~source.isString \/ source.chars = <<>> THEN FALSE
  ELSE \E verified \in verifiedSources : Includes(source.chars, verified)

\* the characters of the source names of the model
Spelled(source) ==
  CASE source = "sahih bukhari" -> Str(<<"sahih", Blank, "bukhari">>)
    [] source = "tafsir" -> Str(<<"tafsir">>)
    [] source = "" -> Str(<<>>)

NoGrade == "<null>"

\* A grade is a string whose characters are blanks and whole words (a word
\* stands for its letters), or no string.  "ar:sahih", "ar:hasan", "ar:daif"
\* and "ar:mawdu" are the four Arabic labels of hadith.js:390-393.
MaxGradeLen == 3

GradeWords ==
  {"sahih", "SAHIH", "Sahih", "hasan", "weak", "fabricated", "ar:sahih",
   "ar:hasan", "ar:daif", "ar:mawdu", "Mawquf", "constructor", "__proto__"}

\* String.prototype.toLowerCase on the words of the model
LowerWord(c) ==
  CASE c \in {"SAHIH", "Sahih"} -> "sahih"
    [] c = "Mawquf" -> "mawquf"
    [] OTHER -> c

toLowerCase(chars) == [i \in 1..Len(chars) |-> LowerWord(chars[i])]

\* hadith.js:389-398
gradeMap ==
  [k \in {"ar:sahih", "ar:hasan", "ar:daif", "ar:mawdu", "sahih", "hasan",
          "weak", "fabricated"} |->
     CASE k \in {"ar:sahih", "sahih"} -> "ar:sahih"
       [] k \in {"ar:hasan", "hasan"} -> "ar:hasan"
       [] k \in {"ar:daif", "weak"} -> "ar:daif"
       [] k \in {"ar:mawdu", "fabricated"} -> "ar:mawdu"]

\* null
Null == [isString |-> FALSE, chars |-> <<"null">>]

\* gradeMap is an object literal: a key it does not own is looked up in
\* Object.prototype, whose lower-case property names are these two; their
\* values (a function, an object) are truthy
ObjectPrototype == {"constructor", "__proto__"}

Inherited(name) == [isString |-> FALSE, chars |-> <<"Object.prototype", name>>]

\* the string chars is the single word of a property of the set
Names(chars, properties) == Len(chars) = 1 /\ chars[1] \in properties

\* hadith.js:386-402
normalizeGrade(grade) ==
  IF ~grade.isString \/ grade.chars = <<>> THEN Null
  ELSE LET normalized == Trim(toLowerCase(grade.chars))
       IN  IF Names(normalized, DOMAIN gradeMap)
             THEN Str(<<gradeMap[normalized[1]]>>)
           ELSE IF Names(normalized, ObjectPrototype)
             THEN Inherited(normalized[1])
           ELSE Str(Trim(grade.chars))

\* the grade column of a record of the model: null, or a text
GradeColumn(value) == IF value = Null THEN NoGrade ELSE "<grade>"

\* the elements of the model carry no book, source or grade field, so that
\* rawHadith.book || rawHadith.source || '' and rawHadith.grade ||
\* rawHadith.hukm || '' are the empty string
GradeOfNoField == GradeColumn(normalizeGrade(Str(<<>>)))

VerifiedOfNoField == isVerifiedSource(Spelled(""))

HadithData(raw, uuid) ==
  [id |-> uuid,
   dorarId |-> DorarId(raw),
   text |-> cleanText(OrElse(raw.hadith, OrElse(raw.text, ""))),
   arabicText |-> cleanArabicText(OrElse(raw.arabic, OrElse(raw.hadith, ""))),
   source |-> cleanText(""),
   grade |-> GradeOfNoField,
   isVerified |-> VerifiedOfNoField]

\* a test that every element passes
HasEssentialDataAlways(data) == TRUE

\* hadith.js:253  hadithData.text || hadithData.arabicText
HasEssentialData(data) == data.text # "" \/ data.arabicText # ""

\* updatedAt: a Date once an update has written it (hadith.js:290)
DateObject == "<Date>"

IsoString == "<iso-string>"

NotWritten == "<default>"

Row(data, searchCount, updatedAt) ==
  [id |-> data.id, dorarId |-> data.dorarId, text |-> data.text,
   arabicText |-> data.arabicText, searchCount |-> searchCount,
   updatedAt |-> updatedAt, source |-> data.source, grade |-> data.grade,
   isVerified |-> data.isVerified]

RowsWithDorarId(table, dorarId) == {r \in table : r.dorarId = dorarId}

UpdateExistingInserts(table, data) == table \cup {Row(data, 0, NotWritten)}

\* hadith.js:286-292  update where dorarId, data: {...hadithData, updatedAt}
UpdateExisting(table, data) ==
  LET existing == CHOOSE r \in RowsWithDorarId(table, data.dorarId) : TRUE
  IN  (table \ {existing}) \cup {Row(data, existing.searchCount, DateObject)}

\* hadith.js:295-303  create
CreateRow(table, data) == table \cup {Row(data, 0, NotWritten)}

\* hadith.js:278  if (hadithData.dorarId)
HasDorarId(data) == data.dorarId # 0

\* hadith.js:274-314.  dbOk: whether the storage calls succeed; on a failure
\* the catch returns null and the table is as before.
saveHadithToDatabase(table, data, dbOk) ==
  IF ~dbOk THEN [table |-> table, saved |-> FALSE, row |-> Row(data, 0, NotWritten)]
  ELSE IF HasDorarId(data) /\ RowsWithDorarId(table, data.dorarId) # {}
    THEN LET t == UpdateExisting(table, data)
         IN  [table |-> t, saved |-> TRUE,
              row |-> CHOOSE r \in t : r.id = data.id]
  ELSE [table |-> CreateRow(table, data), saved |-> TRUE, row |-> Row(data, 0, NotWritten)]

\* hadith.js:231-267.  kept: whether a record is returned; saved: whether it
\* is the stored row (savedHadith) or the unsaved hadithData.
\* hadith.js:252-259  the essential-data test and the save, on hadithData
KeptIfEssential(table, data, dbOk) ==
  LET s == saveHadithToDatabase(table, data, dbOk)
  IN  IF HasEssentialData(data)
        THEN [table |-> s.table, kept |-> TRUE, saved |-> s.saved,
              threw |-> FALSE, data |-> data]
        ELSE [table |-> table, kept |-> FALSE, saved |-> FALSE,
              threw |-> FALSE, data |-> data]

normalizeHadithData(table, raw, uuid, dbOk) ==
  IF NormalizeThrows(raw)
    THEN [table |-> table, kept |-> FALSE, saved |-> FALSE, threw |-> TRUE,
          data |-> HadithData(NullElement, uuid)]
  ELSE KeptIfEssential(table, HadithData(raw, uuid), dbOk)

\* the record handed back for a kept element: savedHadith || hadithData
Returned(n) ==
  IF n.saved THEN CHOOSE r \in n.table : r.id = n.data.id
  ELSE n.data

\* the loop as it would be if a failing element ended it
RECURSIVE ProcessElementsAborting(_, _, _, _, _)
ProcessElementsAborting(table, items, i, uuid, failed) ==
  IF i > Len(items)
    THEN [table |-> table, result |-> <<>>, uuid |-> uuid]
  ELSE LET n == normalizeHadithData(table, items[i], uuid + 1, i \notin failed)
           rest == ProcessElementsAborting(n.table, items, i + 1, uuid + 1, failed)
       IN  IF n.threw THEN [table |-> table, result |-> <<>>, uuid |-> uuid + 1]
           ELSE [table |-> rest.table,
                 result |-> IF n.kept THEN <<Returned(n)>> \o rest.result
                            ELSE rest.result,
                 uuid |-> rest.uuid]

\* hadith.js:204-217  the loop: one element after the other, failed[i] says
\* whether storage fails while element i is saved
RECURSIVE ProcessElements(_, _, _, _, _)
ProcessElements(table, items, i, uuid, failed) ==
  IF i > Len(items)
    THEN [table |-> table, result |-> <<>>, uuid |-> uuid]
  ELSE LET n == normalizeHadithData(table, items[i], uuid + 1, i \notin failed)
           rest == ProcessElements(n.table, items, i + 1, uuid + 1, failed)
       IN  [table |-> rest.table,
            result |-> IF n.kept THEN <<Returned(n)>> \o rest.result ELSE rest.result,
            uuid |-> rest.uuid]

\* hadith.js:192-224
processSearchResponse(table, response, uuid, failed) ==
  IF response = NotArray
    THEN [table |-> table, result |-> <<>>, uuid |-> uuid]
  ELSE ProcessElements(table, response.items, 1, uuid, failed)

\* before: the rows that carried the element's dorarId when the call began
NoNormCall == [called |-> FALSE, raw |-> NullElement, dbOk |-> FALSE,
               kept |-> FALSE, saved |-> FALSE,
               data |-> HadithData(NullElement, 0), before |-> {}]

NormCall(table, raw, dbOk, n) ==
  [called |-> TRUE, raw |-> raw, dbOk |-> dbOk, kept |-> n.kept,
   saved |-> n.saved, data |-> n.data,
   before |-> IF raw.id = 0 THEN {} ELSE RowsWithDorarId(table, raw.id)]

\* rows created by this step keep their first id in the history
RecordCreated(after) ==
  [d \in DOMAIN createdId \cup {r.dorarId : r \in {x \in after : x.dorarId # 0}} |->
     IF d \in DOMAIN createdId THEN createdId[d]
     ELSE (CHOOSE r \in after : r.dorarId = d).id]

Normalize(raw, dbOk) ==
  LET n == normalizeHadithData(hadiths, raw, uuids + 1, dbOk)
  IN  /\ uuids < MaxUuid
      /\ hadiths' = n.table
      /\ uuids' = uuids + 1
      /\ createdId' = RecordCreated(n.table)
      /\ normLast' = NormCall(hadiths, raw, dbOk, n)
      /\ UNCHANGED procLast

NoProcCall == [called |-> FALSE, response |-> NotArray, failed |-> {},
               result |-> <<>>]

\* one application of processSearchResponse to the table drawn by InitProc
ProcessResponse(response, failed) ==
  LET r == processSearchResponse(hadiths, response, uuids, failed)
  IN  /\ ~procLast.called
      /\ hadiths' = r.table
      /\ uuids' = r.uuid
      /\ createdId' = RecordCreated(r.table)
      /\ procLast' = [called |-> TRUE, response |-> response, failed |-> failed,
                      result |-> r.result]
      /\ UNCHANGED normLast

NormStart ==
  /\ hadiths = {}
  /\ uuids = 0
  /\ createdId = EmptyMap
  /\ normLast = NoNormCall
  /\ procLast = NoProcCall

\* a row stored by an earlier search, looked up twice since
StoredRow == [id |-> 1, dorarId |-> 1, text |-> "t1", arabicText |-> "",
              searchCount |-> 2, updatedAt |-> NotWritten, source |-> "",
              grade |-> NoGrade, isVerified |-> FALSE]

(***************************************************************************)
(* The cache, logger.js:582-619 (db.cache.set / db.cache.get).             *)
(***************************************************************************)
CacheTtl == 2

\* JSON.stringify / JSON.parse of a result list (logger.js:586-587, 613): a
\* Date serializes as an ISO string and is parsed back as that string
JsonItem(item) ==
  IF "updatedAt" \in DOMAIN item /\ item.updatedAt = DateObject
    THEN [item EXCEPT !.updatedAt = IsoString]
    ELSE item

JsonStringify(value) == [json |-> [i \in 1..Len(value) |-> JsonItem(value[i])]]

JsonParse(text) == text.json

Miss == [hit |-> FALSE, value |-> <<>>]

Hit(value) == [hit |-> TRUE, value |-> value]

\* an entry that never expires
Unexpiring(entry, t) == FALSE

\* logger.js:607  cached.expiresAt < new Date()
Expired(entry, t) == entry.expiresAt < t

\* a delete that removes nothing
DeleteNothing(table, key) == table

\* logger.js:608  prisma.cache.delete({ where: { id: key } })
DeleteEntry(table, key) == [k \in DOMAIN table \ {key} |-> table[k]]

\* logger.js:595-619.  readOk, deleteOk: whether findUnique and delete succeed;
\* a failure is caught and answered with null.
cacheGet(table, key, t, readOk, deleteOk) ==
  IF ~readOk THEN [cache |-> table, got |-> Miss]
  ELSE IF key \notin DOMAIN table THEN [cache |-> table, got |-> Miss]
  ELSE IF Expired(table[key], t)
    THEN [cache |-> IF deleteOk THEN DeleteEntry(table, key) ELSE table,
          got |-> Miss]
  ELSE [cache |-> table, got |-> Hit(JsonParse(table[key].data))]

\* logger.js:582-593  upsert; a failure is caught and answered with null
cacheSet(table, key, data, expiresAt, setOk) ==
  IF ~setOk THEN table
  ELSE [k \in DOMAIN table \cup {key} |->
          IF k = key THEN [data |-> JsonStringify(data), expiresAt |-> expiresAt]
          ELSE table[k]]

\* a setCache that stores nothing
setCacheNoop(table, key, data, t, setOk) == table

\* hadith.js:489-496  expiresAt = Date.now() + (ttl || this.cacheTTL) * 1000
setCache(table, key, data, t, setOk) ==
  cacheSet(table, key, data, t + CacheTtl, setOk)

(***************************************************************************)
(* HadithAPI.search, hadith.js:59-107.                                     *)
(*                                                                         *)
(* A query is a string of characters (ASCII letters, Arabic letters,       *)
(* blanks) or not a string at all.                                         *)
(***************************************************************************)
KeyMaxLen == 250

\* the validation without its trim() disjunct
QueryInvalidUntrimmed(query) == ~query.isString \/ Len(query.chars) = 0

\* hadith.js:62  !query || typeof query !== 'string' || query.trim().length === 0
QueryInvalid(query) ==
  ~query.isString \/ Len(query.chars) = 0 \/ Len(Trim(query.chars)) = 0

\* hadith.js:477  replace(/[^a-zA-Z0-9:_-]/g, '_')
KeyChar(c) == IF c \in {"a", "b"} THEN c ELSE "_"

Min(a, b) == IF a <= b THEN a ELSE b

\* hadith.js:475-478 for ('search', trimmedQuery, options): the options object
\* joins as "[object Object]"; the key is cut after KeyMaxLen characters, of
\* which "hadith_api:search:" takes 18 and ":_object_Object_" 16
generateCacheKey(chars, options) ==
  LET room == KeyMaxLen - 18
      kept == Min(Len(chars), room)
  IN  [query |-> [i \in 1..kept |-> KeyChar(chars[i])],
       options |-> Min(16, room - kept)]

Queries ==
  { NotAString, Str(<<>>), Str(<<Blank>>), Str(<<"a">>), Str(<<Blank, "a">>),
    Str(<<"ar1">>), Str(<<"ar2">>) }

SearchOptions == {"{}", "{page: 2}"}

\* what the request does: the transport fails (connection error, timeout,
\* non-2xx status: axios rejects), or it delivers response.data
TransportFailed == [ok |-> FALSE, data |-> NotArray]

Delivered(data) == [ok |-> TRUE, data |-> data]

SearchTransports ==
  {TransportFailed} \cup
  { Delivered(d) : d \in {ArrayOf(<<>>),
                          ArrayOf(<<Element(1, "t1", Undefined, Undefined, Undefined)>>)} }


SearchEnvs ==
  [readOk : BOOLEAN, deleteOk : BOOLEAN, transport : SearchTransports,
   failed : SUBSET {1}, setOk : BOOLEAN]

\* the environment of a call that never consults it
Untouched ==
  [readOk |-> TRUE, deleteOk |-> TRUE, transport |-> TransportFailed,
   failed |-> {}, setOk |-> TRUE]

EnvsOf(query) == IF QueryInvalid(query) THEN {Untouched} ELSE SearchEnvs

\* a catch that hands the error on to the caller
SearchCatchRethrows(table, rows, uuid, requested, why) ==
  [cache |-> table, hadiths |-> rows, uuid |-> uuid, requested |-> requested,
   raised |-> TRUE, result |-> <<>>, served |-> why, cacheRead |-> why # "invalid",
   cacheWritten |-> FALSE]

\* hadith.js:97-106  the catch: log and return []
SearchCatch(table, rows, uuid, requested, why) ==
  [cache |-> table, hadiths |-> rows, uuid |-> uuid, requested |-> requested,
   raised |-> FALSE, result |-> <<>>, served |-> why, cacheRead |-> why # "invalid",
   cacheWritten |-> FALSE]

\* hadith.js:59-107
search(table, rows, uuid, t, query, options, env) ==
  IF QueryInvalid(query) THEN SearchCatch(table, rows, uuid, FALSE, "invalid")
  ELSE LET key == generateCacheKey(Trim(query.chars), options)
           g == cacheGet(table, key, t, env.readOk, env.deleteOk)
           p == processSearchResponse(rows, env.transport.data, uuid, env.failed)
       IN  IF g.got.hit
             THEN [cache |-> g.cache, hadiths |-> rows, uuid |-> uuid,
                   requested |-> FALSE, raised |-> FALSE, result |-> g.got.value,
                   served |-> "cache", cacheRead |-> TRUE, cacheWritten |-> FALSE]
           ELSE IF ~env.transport.ok
             THEN SearchCatch(g.cache, rows, uuid, TRUE, "failed")
           ELSE [cache |-> setCache(g.cache, key, p.result, t, env.setOk),
                 hadiths |-> p.table, uuid |-> p.uuid, requested |-> TRUE,
                 raised |-> FALSE, result |-> p.result, served |-> "api",
                 cacheRead |-> TRUE, cacheWritten |-> env.setOk]

\* entryBefore / entryAfter: whether the cache holds an entry under the key
\* of the call when it begins and when it ends
NoSearchCall ==
  [called |-> FALSE, query |-> NotAString, options |-> "{}", t |-> 0,
   readOk |-> FALSE, requested |-> FALSE, raised |-> FALSE,
   result |-> <<>>, served |-> "none", cacheRead |-> FALSE,
   cacheWritten |-> FALSE, cacheChanged |-> FALSE, recordWritten |-> FALSE,
   entryBefore |-> FALSE, entryAfter |-> FALSE]

\* what is kept of the call before the latest
Earlier(call) ==
  [called |-> call.called, query |-> call.query, options |-> call.options,
   t |-> call.t, served |-> call.served, cacheWritten |-> call.cacheWritten,
   entryBefore |-> call.entryBefore]

HasEntry(table, query, options) ==
  /\ ~QueryInvalid(query)
  /\ generateCacheKey(Trim(query.chars), options) \in DOMAIN table

SearchCall(query, options, env, r) ==
  [called |-> TRUE, query |-> query, options |-> options, t |-> now,
   readOk |-> env.readOk, requested |-> r.requested,
   raised |-> r.raised, result |-> r.result, served |-> r.served,
   cacheRead |-> r.cacheRead, cacheWritten |-> r.cacheWritten,
   cacheChanged |-> r.cache # cache, recordWritten |-> r.hadiths # hadiths,
   entryBefore |-> HasEntry(cache, query, options),
   entryAfter |-> HasEntry(r.cache, query, options)]

\* the effect of one search call on the state
Searched(query, options, env, r) ==
  /\ r.uuid <= MaxUuid
  /\ cache' = r.cache
  /\ hadiths' = r.hadiths
  /\ uuids' = r.uuid
  /\ createdId' = RecordCreated(r.hadiths)
  /\ searchPrev' = Earlier(searchLast)
  /\ searchLast' = SearchCall(query, options, env, r)

Search(query, options, env) ==
  /\ Searched(query, options, env,
              search(cache, hadiths, uuids, now, query, options, env))
  /\ UNCHANGED <<now, handlerLast, getLast, normLast, procLast>>

(***************************************************************************)
(* handleTextSearch, search.js:34-80.                                      *)
(*                                                                         *)
(* ctx.helpers: whether ctx.safeReply exists (auth.js:286); ctx.reply:     *)
(* what ctx.reply does during the call ("ok", "retry": the first send      *)
(* fails and the plain notice of safeReply goes out, "fail": both fail);   *)
(* ctx.editOk: whether editMessageText succeeds.                           *)
(***************************************************************************)
Texts == { <<Blank>>, <<"a", Blank>>, <<"ar1">>, <<"a", "b">> }

\* without safeReply neither ctx.reply nor editMessageText is reached
HandlerContexts ==
  { c \in [helpers : BOOLEAN, reply : {"ok", "retry", "fail"}, editOk : BOOLEAN] :
      c.helpers \/ (c.reply = "ok" /\ c.editOk) }

\* auth.js:286-306  what the chat receives from safeReply(message)
safeReply(ctx, message) ==
  IF ctx.reply = "ok" THEN message
  ELSE IF ctx.reply = "retry" THEN "notice"
  ELSE "none"

MinQueryLength == 2

TooShort(query) == Len(query) < MinQueryLength

\* search.js:34-80.  branch: the arm of line 36 taken; sent: what the chat
\* receives; raised: whether the handler throws.
handleTextSearch(table, rows, uuid, t, text, ctx, env) ==
  LET query == Trim(text)
      r == search(table, rows, uuid, t, Str(query), "{}", env)
      idle == [cache |-> table, hadiths |-> rows, uuid |-> uuid]
  IN  IF TooShort(query)
        THEN [branch |-> "prompt", searchCalled |-> FALSE, r |-> idle,
              sent |-> IF ctx.helpers THEN safeReply(ctx, "prompt") ELSE "none",
              raised |-> ~ctx.helpers]
      ELSE IF ~ctx.helpers
        THEN [branch |-> "search", searchCalled |-> FALSE, r |-> idle,
              sent |-> "none", raised |-> TRUE]
      ELSE [branch |-> "search", searchCalled |-> TRUE, r |-> r,
            sent |-> IF ctx.reply # "fail" /\ ctx.editOk
                       THEN IF r.result = <<>> THEN "no_results" ELSE "results"
                       ELSE safeReply(ctx, "error"),
            raised |-> FALSE]

\* the environments of the search call of the handler, if it makes one
TextEnvs(text, ctx) ==
  IF ctx.helpers /\ ~TooShort(Trim(text)) THEN SearchEnvs ELSE {Untouched}

NoHandlerCall ==
  [called |-> FALSE, text |-> <<>>, helpers |-> FALSE, reply |-> "ok",
   branch |-> "none", searchCalled |-> FALSE, sent |-> "none", raised |-> FALSE]

TextSearch(text, ctx, env) ==
  LET h == handleTextSearch(cache, hadiths, uuids, now, text, ctx, env)
  IN  /\ IF h.searchCalled
           THEN Searched(Str(Trim(text)), "{}", env, h.r)
           ELSE UNCHANGED <<cache, hadiths, uuids, createdId, searchPrev, searchLast>>
      /\ handlerLast' = [called |-> TRUE, text |-> text, helpers |-> ctx.helpers,
                         reply |-> ctx.reply, branch |-> h.branch,
                         searchCalled |-> h.searchCalled, sent |-> h.sent,
                         raised |-> h.raised]
      /\ UNCHANGED <<now, getLast, normLast, procLast>>

\* time passes
Elapse ==
  /\ now < MaxTime
  /\ now' = now + 1
  /\ UNCHANGED <<cache, hadiths, uuids, createdId, searchPrev, searchLast,
                 handlerLast, getLast, normLast, procLast>>

(***************************************************************************)
(* Direct use of db.cache.get and db.cache.set, logger.js:582-619.         *)
(***************************************************************************)
CacheKeys == {generateCacheKey(<<"a">>, "{}"), generateCacheKey(<<"ar1">>, "{}")}

CacheValues == {<<>>, <<StoredRow>>}

NoGetCall ==
  [called |-> FALSE, key |-> generateCacheKey(<<>>, "{}"), t |-> 0,
   readOk |-> FALSE, deleteOk |-> FALSE, present |-> FALSE,
   before |-> [data |-> JsonStringify(<<>>), expiresAt |-> 0], got |-> Miss]

\* present, before: the entry under the key when the call begins
CacheGet(key, readOk, deleteOk) ==
  LET g == cacheGet(cache, key, now, readOk, deleteOk)
  IN  /\ cache' = g.cache
      /\ getLast' = [called |-> TRUE, key |-> key, t |-> now, readOk |-> readOk,
                     deleteOk |-> deleteOk, present |-> key \in DOMAIN cache,
                     before |-> IF key \in DOMAIN cache THEN cache[key]
                                ELSE NoGetCall.before,
                     got |-> g.got]
      /\ UNCHANGED now

CacheSet(key, data, expiresAt, setOk) ==
  /\ cache' = cacheSet(cache, key, data, expiresAt, setOk)
  /\ getLast' = NoGetCall
  /\ UNCHANGED now

CachePasses ==
  /\ now < MaxTime
  /\ now' = now + 1
  /\ UNCHANGED <<cache, getLast>>

SearchStart ==
  /\ cache = EmptyMap
  /\ searchPrev = Earlier(NoSearchCall)
  /\ searchLast = NoSearchCall
  /\ handlerLast = NoHandlerCall
  /\ getLast = NoGetCall

InitRate == RateStart /\ AuthStart /\ NormStart /\ SearchStart /\ CallStart

NextRate ==
  /\ \/ \E ctx \in RateContexts : RateLimit(ctx)
     \/ Cleanup
     \/ Tick
  /\ UNCHANGED <<authVars, normVars, searchVars, callVars>>

InitAuth ==
  /\ CallStart
  /\ RateStart
  /\ NormStart
  /\ SearchStart
  /\ users \in [Senders -> UNION {UserRows(tg) : tg \in Senders}]
  /\ \A tg \in Senders : users[tg] \in UserRows(tg)
  /\ authLast = NoAuthCall

NextAuth ==
  /\ \E upd \in AuthUpdates, env \in AuthEnvs : Auth(upd, env)
  /\ UNCHANGED <<rateVars, normVars, searchVars, callVars>>

InitNorm == RateStart /\ AuthStart /\ NormStart /\ SearchStart /\ CallStart

NextNorm ==
  /\ \E raw \in RawElements, dbOk \in BOOLEAN : Normalize(raw, dbOk)
  /\ UNCHANGED <<rateVars, authVars, searchVars, callVars>>

InitProc ==
  /\ CallStart
  /\ RateStart
  /\ AuthStart
  /\ SearchStart
  /\ hadiths \in {{}, {StoredRow}}
  /\ uuids = 1
  /\ createdId = [d \in {r.dorarId : r \in hadiths} |-> 1]
  /\ normLast = NoNormCall
  /\ procLast = NoProcCall

NextProc ==
  /\ \E response \in Responses, failed \in SUBSET (1..MaxResp) :
       ProcessResponse(response, failed)
  /\ UNCHANGED <<rateVars, authVars, searchVars, callVars>>

InitSearch == RateStart /\ AuthStart /\ NormStart /\ SearchStart /\ CallStart

\* two consecutive search calls, at any two times, from an empty cache
NextSearch ==
  /\ \/ /\ ~searchPrev.called
        /\ \E query \in Queries, options \in SearchOptions :
             \E env \in EnvsOf(query) : Search(query, options, env)
     \/ Elapse
  /\ UNCHANGED <<rateLimitStore, rlLog, rlLast, authVars, callVars>>

\* a cache filled by an earlier search for the text "ab"
FilledCache ==
  setCache(EmptyMap, generateCacheKey(<<"a", "b">>, "{}"), <<StoredRow>>, 0, TRUE)

InitText ==
  /\ CallStart
  /\ now \in 0..MaxTime
  /\ rateLimitStore = EmptyMap
  /\ rlLog = EmptyMap
  /\ rlLast = [decision |-> "none", next |-> FALSE, error |-> FALSE, remaining |-> 0]
  /\ AuthStart
  /\ NormStart
  /\ cache \in {EmptyMap, FilledCache}
  /\ searchPrev = Earlier(NoSearchCall)
  /\ searchLast = NoSearchCall
  /\ handlerLast = NoHandlerCall
  /\ getLast = NoGetCall

\* one call of search and one of the text handler, in either order, at the
\* time drawn by InitText
NextText ==
  /\ \/ /\ ~searchLast.called
        /\ \E query \in Queries, options \in SearchOptions :
             \E env \in EnvsOf(query) : Search(query, options, env)
     \/ /\ ~handlerLast.called
        /\ \E text \in Texts, ctx \in HandlerContexts :
             \E env \in TextEnvs(text, ctx) : TextSearch(text, ctx, env)
  /\ UNCHANGED <<rateLimitStore, rlLog, rlLast, authVars, callVars>>

InitCache == RateStart /\ AuthStart /\ NormStart /\ SearchStart /\ CallStart

NextCache ==
  /\ \/ \E key \in CacheKeys, readOk \in BOOLEAN, deleteOk \in BOOLEAN :
          CacheGet(key, readOk, deleteOk)
     \/ \E key \in CacheKeys, data \in CacheValues, expiresAt \in 0..MaxTime,
           setOk \in BOOLEAN : CacheSet(key, data, expiresAt, setOk)
     \/ CachePasses
  /\ UNCHANGED <<rateLimitStore, rlLog, rlLast, authVars, normVars,
                 searchPrev, searchLast, handlerLast, callVars>>

(***************************************************************************)
(* setUserBlock, part_002:295-309, among the requests of the limiter.      *)
(***************************************************************************)
MaxDuration == 2

\* part_002:298-303  every stored key that starts with "<userId>:"
setUserBlock(store, userId, blocked, duration, currentTime) ==
  [k \in DOMAIN store |->
     IF k[1] = userId
       THEN [store[k] EXCEPT !.blocked = blocked,
                             !.blockedUntil = IF blocked THEN currentTime + duration
                                              ELSE 0]
       ELSE store[k]]

\* the requests of one sender, with and without its row attached
BlockContexts == {ctx \in RateContexts : ctx.from = 2 /\ ctx.text = "/random"}

BlockableUsers == {RateUserId(ctx) : ctx \in BlockContexts}

\* logged: how many decisions each key had seen when the call was made
SetUserBlock(userId, blocked, duration) ==
  /\ ~callRet.done
  /\ rateLimitStore' = setUserBlock(rateLimitStore, userId, blocked, duration, now)
  /\ callArg' = [userId |-> userId, blocked |-> blocked, duration |-> duration,
                 t |-> now]
  /\ callRet' = Done([logged |-> [k \in DOMAIN rlLog |-> Len(rlLog[k])]])
  /\ UNCHANGED <<now, rlLog, rlLast>>

InitBlock == RateStart /\ AuthStart /\ NormStart /\ SearchStart /\ CallStart

NextBlock ==
  /\ \/ (\E ctx \in BlockContexts : RateLimit(ctx)) /\ UNCHANGED callVars
     \/ \E userId \in BlockableUsers, blocked \in BOOLEAN, duration \in 1..MaxDuration :
          SetUserBlock(userId, blocked, duration)
     \/ Tick /\ UNCHANGED callVars
  /\ UNCHANGED <<authVars, normVars, searchVars>>

(***************************************************************************)
(* determineRateLimit applied to one context, part_002:114-215.            *)
(***************************************************************************)
CallbackDatas == {"search_text", "nav_next", "favorite_add_1", "admin_users", "page_2"}

\* a message carries a text, a callback query carries data
LimitContexts ==
  { [from |-> u.from, user |-> u.user, helpers |-> u.user # NoUser,
     text |-> m.text, cb |-> m.cb] :
      u \in { [from |-> f, user |-> [id |-> UserRecordId(f), telegramId |-> f]] :
                f \in Senders }
             \cup { [from |-> f, user |-> NoUser] : f \in {1, 2} },
      m \in { [text |-> t, cb |-> NoCb] : t \in SlashTexts \cup {"hello", NoText} }
             \cup { [text |-> NoText, cb |-> d] : d \in CallbackDatas \cup {NoData} } }

DetermineLimit ==
  /\ ~callRet.done
  /\ callRet' = Done(determineRateLimit(callArg))
  /\ UNCHANGED callArg

InitLimit ==
  /\ RateStart
  /\ AuthStart
  /\ NormStart
  /\ SearchStart
  /\ callArg \in LimitContexts
  /\ callRet = NotCalled

NextLimit ==
  /\ DetermineLimit
  /\ UNCHANGED <<rateVars, authVars, normVars, searchVars>>

(***************************************************************************)
(* getRandom, hadith.js:114-148, and getRandomFromDatabase,                *)
(* hadith.js:321-363: one call on a storage of catalogued records.         *)
(***************************************************************************)
NoHadith == [found |-> FALSE]

FoundHadith(hadith) == [found |-> TRUE, value |-> hadith]

CatalogueRow(id, source, grade, isVerified) ==
  [id |-> id, dorarId |-> id, text |-> "t1", arabicText |-> "",
   searchCount |-> 0, updatedAt |-> NotWritten, source |-> source,
   grade |-> grade, isVerified |-> isVerified]

\* records as saveHadithToDatabase leaves them: isVerified is
\* isVerifiedSource of the source
VerifiedOf(source) == isVerifiedSource(Spelled(source))

Catalogue ==
  {CatalogueRow(1, "sahih bukhari", "sahih", VerifiedOf("sahih bukhari")),
   CatalogueRow(2, "tafsir", NoGrade, VerifiedOf("tafsir")),
   CatalogueRow(3, "sahih bukhari", "hasan", VerifiedOf("sahih bukhari"))}

\* the filters of the model set source and grade and leave topic and
\* narrator unset; "" is the unset (falsy) filter
RandomFilters == [source : {"", "bukhari", "tafsir"}, grade : {"", "sahih"}]

\* hadith.js:325-336  the where clause without isVerified
MatchesFilters(row, filters) ==
  /\ filters.source # "" => Contains(row.source, filters.source)
  /\ filters.grade # "" => row.grade = filters.grade

\* hadith.js:323  const whereClause = { isVerified: true }
WhereClause(row, filters) == row.isVerified /\ MatchesFilters(row, filters)

\* findFirst with skip: the rows in the order of their ids
Skipped(rows, skip) ==
  CHOOSE r \in rows : Cardinality({x \in rows : x.id < r.id}) = skip

\* a lookup that never finds a record
getRandomFromDatabaseNone(rows, filters, countOk, findOk, skip) == NoHadith

\* hadith.js:321-363
getRandomFromDatabase(rows, filters, countOk, findOk, skip) ==
  LET matching == {r \in rows : WhereClause(r, filters)}
      count == Cardinality(matching)
  IN  IF ~countOk THEN NoHadith
      ELSE IF count = 0 THEN NoHadith
      ELSE IF ~findOk THEN NoHadith
      ELSE FoundHadith(Skipped(matching, skip))

\* hadith.js:123  the seed terms, all in Arabic script
searchTerms == {Str(<<"ar1">>), Str(<<"ar2">>)}

\* hadith.js:126-130  the outcome of the search: a raised error lands in the
\* catch of getRandom, an empty result leaves hadith null
RandomFromSearch(s, index) ==
  [cache |-> s.cache, hadiths |-> s.hadiths, uuid |-> s.uuid,
   result |-> IF ~s.raised /\ index < Len(s.result)
                THEN FoundHadith(s.result[index + 1])
              ELSE NoHadith,
   results |-> Len(s.result), searched |-> TRUE, requested |-> s.requested,
   raised |-> FALSE]

\* hadith.js:114-148; searched: whether search() was called, requested:
\* whether that call went to the external API, results: how many records
\* the search returned
getRandom(table, rows, uuid, t, filters, countOk, findOk, skip, randomTerm, env, index) ==
  LET hadith == getRandomFromDatabase(rows, filters, countOk, findOk, skip)
  IN  IF hadith.found
        THEN [cache |-> table, hadiths |-> rows, uuid |-> uuid, result |-> hadith,
              results |-> 0, searched |-> FALSE, requested |-> FALSE,
              raised |-> FALSE]
      ELSE RandomFromSearch(search(table, rows, uuid, t, randomTerm, "{}", env), index)

\* Math.floor(Math.random() * n) for n >= 1 is any of 0..n-1
RandomBelow(n) == 0..(IF n > 1 THEN n - 1 ELSE 0)

\* the effect of one getRandom call on the state
Randomized(filters, countOk, findOk, skip, index, r) ==
  /\ skip \in RandomBelow(Cardinality({x \in hadiths : WhereClause(x, filters)}))
  /\ index \in RandomBelow(r.results)
  /\ r.uuid <= MaxUuid
  /\ cache' = r.cache
  /\ hadiths' = r.hadiths
  /\ uuids' = r.uuid
  /\ createdId' = RecordCreated(r.hadiths)
  /\ callArg' = [filters |-> filters, rows |-> hadiths, countOk |-> countOk,
                 findOk |-> findOk]
  /\ callRet' = Done([result |-> r.result, searched |-> r.searched,
                      requested |-> r.requested, raised |-> r.raised])

GetRandom(filters, countOk, findOk, skip, randomTerm, env, index) ==
  /\ ~callRet.done
  /\ Randomized(filters, countOk, findOk, skip, index,
                getRandom(cache, hadiths, uuids, now, filters, countOk, findOk,
                          skip, randomTerm, env, index))
  /\ UNCHANGED <<now, normLast, procLast, searchPrev, searchLast,
                 handlerLast, getLast>>

InitRandom ==
  /\ RateStart /\ AuthStart /\ SearchStart /\ CallStart
  /\ hadiths \in SUBSET Catalogue
  /\ uuids = Cardinality(Catalogue)
  /\ createdId = [d \in {r.dorarId : r \in hadiths} |-> d]
  /\ normLast = NoNormCall
  /\ procLast = NoProcCall

\* the cache is empty, so that no entry is ever deleted
RandomEnvs == {env \in SearchEnvs : env.deleteOk}

NextRandom ==
  /\ \E filters \in RandomFilters, countOk \in BOOLEAN, findOk \in BOOLEAN,
        randomTerm \in searchTerms :
       \E skip \in RandomBelow(Cardinality(Catalogue)), env \in RandomEnvs,
          index \in RandomBelow(MaxResp) :
         GetRandom(filters, countOk, findOk, skip, randomTerm, env, index)
  /\ UNCHANGED <<rateVars, authVars>>

(***************************************************************************)
(* getById, hadith.js:155-185: one call on a storage of catalogued records *)
(* that earlier lookups have counted.                                      *)
(***************************************************************************)
MaxSearchCount == 1

MaxHadithId == 4

\* hadith.js:170-173  update where id, data: { searchCount: { increment: 1 } }
IncrementSearchCount(rows, hadithId) ==
  {IF r.id = hadithId THEN [r EXCEPT !.searchCount = @ + 1] ELSE r : r \in rows}

\* hadith.js:155-185.  findOk, updateOk: whether findUnique and update
\* succeed; a failure of either lands in the catch, which returns null
getById(rows, hadithId, findOk, updateOk) ==
  LET found == {r \in rows : r.id = hadithId}
  IN  IF ~findOk THEN [hadiths |-> rows, result |-> NoHadith]
      ELSE IF found = {} THEN [hadiths |-> rows, result |-> NoHadith]
      ELSE IF ~updateOk THEN [hadiths |-> rows, result |-> NoHadith]
      ELSE [hadiths |-> IncrementSearchCount(rows, hadithId),
            result |-> FoundHadith(CHOOSE r \in found : TRUE)]

GetById(hadithId, findOk, updateOk) ==
  LET r == getById(hadiths, hadithId, findOk, updateOk)
  IN  /\ ~callRet.done
      /\ hadiths' = r.hadiths
      /\ callArg' = [hadithId |-> hadithId, rows |-> hadiths, findOk |-> findOk,
                     updateOk |-> updateOk]
      /\ callRet' = Done([result |-> r.result])
      /\ UNCHANGED <<uuids, createdId, normLast, procLast>>

\* each catalogued record is absent or stored with some search count
CountedCatalogue ==
  {rows \in SUBSET {[r EXCEPT !.searchCount = n] :
                      r \in Catalogue, n \in 0..MaxSearchCount} :
     \A a, b \in rows : a.id = b.id => a = b}

InitById ==
  /\ RateStart /\ AuthStart /\ SearchStart /\ CallStart
  /\ hadiths \in CountedCatalogue
  /\ uuids = Cardinality(Catalogue)
  /\ createdId = [d \in {r.dorarId : r \in hadiths} |-> d]
  /\ normLast = NoNormCall
  /\ procLast = NoProcCall

NextById ==
  /\ \E hadithId \in 1..MaxHadithId, findOk \in BOOLEAN, updateOk \in BOOLEAN :
       GetById(hadithId, findOk, updateOk)
  /\ UNCHANGED <<rateVars, authVars, searchVars>>

(***************************************************************************)
(* categorizeError applied to one error, keyboards.js:1147-1192.           *)
(*                                                                         *)
(* An error has a code (missing, a number or a string), a name (missing or *)
(* a string) and a message (missing or a string); a message is written as  *)
(* the set of the searched phrases it includes.                            *)
(***************************************************************************)
NoCode == [type |-> "undefined"]

NumberCode(n) == [type |-> "number", number |-> n]

StringCode(str) == [type |-> "string", string |-> str]

StatusCodes == {0, 400, 401, 403, 404, 418, 429, 500, 502, 503, 504}

SystemCodes == {"ECONNREFUSED", "ETIMEDOUT", "P2002", ""}

ErrorCodes ==
  {NoCode} \cup {NumberCode(n) : n \in StatusCodes}
           \cup {StringCode(str) : str \in SystemCodes}

ErrorNames ==
  {Undefined, "Error", "PrismaClientKnownRequestError", "ValidationError"}

Phrases == {"database", "validation", "rate limit"}

NoMessage == [defined |-> FALSE]

Message(includes) == [defined |-> TRUE, includes |-> includes]

ErrorMessages == {NoMessage} \cup {Message(includes) : includes \in SUBSET Phrases}

Errors == [code : ErrorCodes, name : ErrorNames, message : ErrorMessages]

\* if (error.code): undefined, 0 and '' are falsy
CodeTruthy(code) ==
  \/ code.type = "number" /\ code.number # 0
  \/ code.type = "string" /\ code.string # ""

\* error.name?.includes('Prisma')
NameIncludesPrisma(name) == name = "PrismaClientKnownRequestError"

\* error.message?.includes(phrase)
MessageIncludes(message, phrase) == message.defined /\ phrase \in message.includes

\* error.code === str
CodeIs(code, str) == code.type = "string" /\ code.string = str

\* keyboards.js:1150-1167  the switch on error.code
SwitchOnCode(code) ==
  IF code = NumberCode(400) THEN "bad_request"
  ELSE IF code = NumberCode(401) THEN "unauthorized"
  ELSE IF code = NumberCode(403) THEN "forbidden"
  ELSE IF code = NumberCode(404) THEN "not_found"
  ELSE IF code = NumberCode(429) THEN "rate_limited"
  ELSE IF code \in {NumberCode(502), NumberCode(503), NumberCode(504)}
    THEN "server_error"
  ELSE "telegram_api"

\* keyboards.js:1147-1192
categorizeError(error) ==
  IF CodeTruthy(error.code) THEN SwitchOnCode(error.code)
  ELSE IF NameIncludesPrisma(error.name) \/ MessageIncludes(error.message, "database")
    THEN "database"
  ELSE IF CodeIs(error.code, "ECONNREFUSED") \/ CodeIs(error.code, "ETIMEDOUT")
    THEN "network"
  ELSE IF error.name = "ValidationError" \/ MessageIncludes(error.message, "validation")
    THEN "validation"
  ELSE IF MessageIncludes(error.message, "rate limit") THEN "rate_limit"
  ELSE "general"

CategorizeError ==
  /\ ~callRet.done
  /\ callRet' = Done(categorizeError(callArg))
  /\ UNCHANGED callArg

InitError ==
  /\ RateStart /\ AuthStart /\ NormStart /\ SearchStart
  /\ callArg \in Errors
  /\ callRet = NotCalled

NextError ==
  /\ CategorizeError
  /\ UNCHANGED <<rateVars, authVars, normVars, searchVars>>

(***************************************************************************)
(* The error responder, keyboards.js:1113-1347, with the safe helpers of   *)
(* auth.js:285-322: one handleError call.                                  *)
(*                                                                         *)
(* What the call does is written as the sequence of its events: the log    *)
(* entries and the send, edit and answer operations, in program order.     *)
(* A text is its template and the error-id printed in it.                  *)
(***************************************************************************)
NoErrorId == [t |-> 0, random |-> ""]

\* keyboards.js:1377-1379  'ERR_' + Date.now() + '_' + Math.random()
generateErrorId(t, random) == [t |-> t, random |-> random]

Text(template, errorId) == [template |-> template, errorId |-> errorId]

LogEntry(operation, errorId, context) ==
  [kind |-> "log", op |-> operation, text |-> Text("", errorId),
   context |-> context, ok |-> TRUE]

\* ok: whether the operation succeeds
Attempt(op, text, ok) ==
  [kind |-> "send", op |-> op, text |-> text, context |-> "", ok |-> ok]

\* the categories with a case of their own in the switch of sendErrorResponse
OwnTemplates ==
  {"bad_request", "forbidden", "rate_limited", "server_error", "database",
   "network", "validation"}

\* keyboards.js:1201-1303  the switch: a fixed text per case, and
\* messages.formatError(null, { errorId }) (keyboards.js:941-958) by default
responseMessage(errorType, errorId) ==
  IF errorType \in OwnTemplates THEN Text(errorType, NoErrorId)
  ELSE Text("formatError", errorId)

\* auth.js:285-303, as the events of the call; replyOk[i]: whether the
\* i-th ctx.reply succeeds
safeReplyTrace(text, env) ==
  <<Attempt("reply", text, env.replyOk[1])>> \o
  (IF env.replyOk[1] THEN <<>>
   ELSE <<LogEntry("safe_reply", NoErrorId, ""),
          Attempt("reply", Text("simple", NoErrorId), env.replyOk[2])>> \o
        (IF env.replyOk[2] THEN <<>>
         ELSE <<LogEntry("safe_reply_retry", NoErrorId, "")>>))

\* auth.js:306-319
safeEditTextTrace(text, env) ==
  <<Attempt("editMessageText", text, env.editOk)>> \o
  (IF env.editOk THEN <<>>
   ELSE <<LogEntry("safe_edit", NoErrorId, "")>> \o safeReplyTrace(text, env))

\* auth.js:322-334
safeAnswerCbQueryTrace(text, env) ==
  <<Attempt("answerCbQuery", text, env.answerOk)>> \o
  (IF env.answerOk THEN <<>> ELSE <<LogEntry("safe_answer_cb_query", NoErrorId, "")>>)

\* a responder whose last catch hands the error on
FinalCatchRethrows(errorId, env) ==
  [events |-> <<LogEntry("send_error_response", errorId, ""),
                Attempt("reply", Text("minimal", NoErrorId), env.replyOk[1])>>,
   raised |-> ~env.replyOk[1]]

\* keyboards.js:1328-1346  the catch of sendErrorResponse: log, try the
\* minimal text, log again when that fails too
FinalCatch(errorId, env) ==
  [events |-> <<LogEntry("send_error_response", errorId, ""),
                Attempt("reply", Text("minimal", NoErrorId), env.replyOk[1])>> \o
              (IF env.replyOk[1] THEN <<>>
               ELSE <<LogEntry("send_final_error_response", errorId, "")>>),
   raised |-> FALSE]

\* keyboards.js:1197-1347.  ctx.helpers: whether authMiddleware attached
\* safeReply, safeEditText and safeAnswerCbQuery to the context; without
\* them the first call in the try raises a TypeError
sendErrorResponse(ctx, errorType, errorId, env) ==
  IF ~ctx.helpers THEN FinalCatch(errorId, env)
  ELSE IF ctx.callbackQuery
    THEN [events |-> safeAnswerCbQueryTrace(Text("acknowledgment", NoErrorId), env) \o
                     safeEditTextTrace(responseMessage(errorType, errorId), env),
          raised |-> FALSE]
  ELSE [events |-> safeReplyTrace(responseMessage(errorType, errorId), env),
        raised |-> FALSE]

\* a handler that responds first and logs afterwards
handleErrorLogsLast(error, ctx, errorId, env) ==
  LET sent == sendErrorResponse(ctx, categorizeError(error), errorId, env)
  IN  [events |-> sent.events \o
                  <<LogEntry("bot_error_handler", errorId, ctx.updateType)>>,
       raised |-> sent.raised]

\* keyboards.js:1124-1142
handleError(error, ctx, errorId, env) ==
  LET sent == sendErrorResponse(ctx, categorizeError(error), errorId, env)
  IN  [events |-> <<LogEntry("bot_error_handler", errorId, ctx.updateType)>> \o
                  sent.events,
       raised |-> sent.raised]

\* one error of every category, and the string codes
HandledErrors ==
  {e \in Errors :
     /\ e.code \in {NoCode, NumberCode(400), NumberCode(401), NumberCode(403),
                    NumberCode(404), NumberCode(429), NumberCode(500),
                    NumberCode(503), StringCode("ECONNREFUSED")}
     /\ e.name \in {"Error", "ValidationError"}
     /\ e.message \in {NoMessage, Message({"database"}), Message({"rate limit"})}}

ErrorContexts ==
  {[callbackQuery |-> cb, helpers |-> h,
    updateType |-> IF cb THEN "callback_query" ELSE "message"] : cb, h \in BOOLEAN}

ResponseEnvs == [answerOk : BOOLEAN, editOk : BOOLEAN, replyOk : [1..2 -> BOOLEAN]]

\* the environments that differ in an operation the call can reach
EnvsOfContext(ctx) ==
  {env \in ResponseEnvs :
     /\ ~(ctx.helpers /\ ctx.callbackQuery) => env.answerOk /\ env.editOk
     /\ ~ctx.helpers => env.replyOk[2]}

\* keyboards.js:1113-1119  errorMiddleware, next() having raised the error
HandleError ==
  /\ ~callRet.done
  /\ callRet' = Done(handleError(callArg.error, callArg.ctx,
                                 generateErrorId(now, callArg.random), callArg.env))
  /\ UNCHANGED callArg

InitRespond ==
  /\ RateStart /\ AuthStart /\ NormStart /\ SearchStart
  /\ callRet = NotCalled
  /\ \E error \in HandledErrors, ctx \in ErrorContexts, random \in {"k3x9a", "p0q7z"} :
       \E env \in EnvsOfContext(ctx) :
         callArg = [error |-> error, ctx |-> ctx, random |-> random, env |-> env]

NextRespond ==
  /\ HandleError
  /\ UNCHANGED <<rateVars, authVars, normVars, searchVars>>

(***************************************************************************)
(* Concurrent saveHadithToDatabase calls, hadith.js:274-314.               *)
(*                                                                         *)
(* Updates are handled concurrently and every await is a point where       *)
(* another call may run: a call looks its dorarId up (findUnique), and     *)
(* later writes (update or create).  In this specification callArg holds,  *)
(* per call, its hadithData, its position and what its lookup found.       *)
(* findUnique and update address a row by dorarId (hadith.js:280, 286),    *)
(* which the storage client accepts for a unique column only: creating a   *)
(* second row with a stored dorarId is rejected by storage.                *)
(***************************************************************************)
Saves == 1..3

\* the hadithData of call p: the identifier is its own, the dorarId is any
SaveData(p, dorarId) ==
  HadithData(Element(dorarId, "t1", Undefined, Undefined, Undefined), 1 + p)

\* a create that storage never rejects
createUnchecked(table, data) ==
  [table |-> CreateRow(table, data), saved |-> TRUE]

\* hadith.js:295-303  create; rejected when the dorarId is already stored
create(table, data) ==
  IF HasDorarId(data) /\ RowsWithDorarId(table, data.dorarId) # {}
    THEN [table |-> table, saved |-> FALSE]
    ELSE [table |-> CreateRow(table, data), saved |-> TRUE]

\* hadith.js:278-283  if (hadithData.dorarId) existing = await findUnique(..)
FindExisting(p, findOk) ==
  /\ callArg[p].pc = "find"
  /\ callArg' =
       [callArg EXCEPT
          ![p].pc = IF findOk THEN "write" ELSE "done",
          ![p].existing = /\ HasDorarId(callArg[p].data)
                          /\ RowsWithDorarId(hadiths, callArg[p].data.dorarId) # {}]
  /\ UNCHANGED <<hadiths, uuids, createdId, normLast, procLast, callRet>>

\* hadith.js:284-309  await update(..) or await create(..), and the catch
WriteRow(p, writeOk) ==
  LET data == callArg[p].data
      made == create(hadiths, data)
  IN  /\ callArg[p].pc = "write"
      /\ hadiths' = IF ~writeOk THEN hadiths
                    ELSE IF callArg[p].existing THEN UpdateExisting(hadiths, data)
                    ELSE made.table
      /\ callArg' = [callArg EXCEPT
                       ![p].pc = "done",
                       ![p].saved = /\ writeOk
                                    /\ (callArg[p].existing \/ made.saved)]
      /\ createdId' = RecordCreated(hadiths')
      /\ UNCHANGED <<uuids, normLast, procLast, callRet>>

InitSave ==
  /\ RateStart /\ AuthStart /\ SearchStart
  /\ hadiths \in {{}, {StoredRow}}
  /\ uuids = 1 + Cardinality(Saves)
  /\ createdId = [d \in {r.dorarId : r \in hadiths} |-> 1]
  /\ normLast = NoNormCall
  /\ procLast = NoProcCall
  /\ callRet = NotCalled
  /\ \E dorarIds \in [Saves -> 0..2] :
       callArg = [p \in Saves |->
                    [data |-> SaveData(p, dorarIds[p]), pc |-> "find",
                     existing |-> FALSE, saved |-> FALSE]]

NextSave ==
  /\ \/ \E p \in Saves, findOk \in BOOLEAN : FindExisting(p, findOk)
     \/ \E p \in Saves, writeOk \in BOOLEAN : WriteRow(p, writeOk)
  /\ UNCHANGED <<rateVars, authVars, searchVars>>

(***************************************************************************)
(* The middleware chain of one update, index.js:94-113: the functions      *)
(* registered with bot.use run in registration order, each one reaching    *)
(* the following one by calling next(); the handlers registered afterwards *)
(* (index.js:118-230) follow the last of them.                             *)
(***************************************************************************)
MaxUpdates == 3

\* a chain that limits before it authenticates
ChainLimiterFirst == <<"logging", "rateLimit", "auth", "error">>

\* index.js:97-106  the order of the bot.use calls
Chain == <<"logging", "auth", "rateLimit", "error">>

\* the stage next() of a stage reaches: the following middleware, or the
\* handler after the last one
After(stage) ==
  LET i == CHOOSE k \in 1..Len(Chain) : Chain[k] = stage
  IN  IF i < Len(Chain) THEN Chain[i + 1] ELSE "handler"

\* passed: whether the stage called next(); for the handler, whether it
\* returned without raising
Stage(name, passed, decision) ==
  [stage |-> name, passed |-> passed, decision |-> decision]

\* where the update goes after a stage
Onward(stage, passed) == IF passed THEN After(stage) ELSE "idle"

Idle(count) ==
  [done |-> FALSE, pc |-> "idle", trace |-> <<>>, events |-> <<>>,
   raised |-> FALSE, count |-> count]

\* an update without a sender, the messages of two users and of another bot
PipelineUpdates ==
  { [from |-> u.from, isBot |-> u.isBot, text |-> u.text, cb |-> NoCb,
     user |-> NoUser, helpers |-> FALSE] :
      u \in { [from |-> 0, isBot |-> FALSE, text |-> NoText],
              [from |-> 1, isBot |-> FALSE, text |-> "/random"],
              [from |-> 1, isBot |-> FALSE, text |-> "hello"],
              [from |-> 2, isBot |-> FALSE, text |-> "/random"],
              [from |-> 2, isBot |-> TRUE, text |-> "hello"] } }

\* Telegraf hands an update to the first middleware
Receive ==
  /\ callRet.pc = "idle"
  /\ callRet.count < MaxUpdates
  /\ \E upd \in PipelineUpdates : callArg' = upd
  /\ callRet' = [Idle(callRet.count + 1) EXCEPT !.pc = Chain[1]]
  /\ UNCHANGED <<rateVars, authVars>>

Advance(stage, passed, decision) ==
  callRet' = [callRet EXCEPT
                !.trace = Append(@, Stage(stage, passed, decision)),
                !.pc = Onward(stage, passed),
                !.done = Onward(stage, passed) = "idle"]

\* part_001:8-50  loggingMiddleware: log the update, then next()
LoggingStage ==
  /\ callRet.pc = "logging"
  /\ Advance("logging", TRUE, "none")
  /\ UNCHANGED <<rateVars, authVars, callArg>>

\* auth.js:13-109 in the chain; what follows it raises nothing into its
\* await next()
AuthStage ==
  /\ callRet.pc = "auth"
  /\ \E env \in AuthEnvs :
       /\ env.nextOk
       /\ LET r == authMiddleware(users, callArg, env)
          IN  /\ users' = r.users
              /\ authLast' = authLast
              /\ callArg' = [callArg EXCEPT !.user = r.out.user,
                                            !.helpers = r.out.helpers]
              /\ Advance("auth", r.out.next > 0,
                         IF r.out.caught THEN "caught" ELSE "none")
  /\ UNCHANGED rateVars

\* part_002:14-109 in the chain
RateLimitStage ==
  /\ callRet.pc = "rateLimit"
  /\ LET r == rateLimitMiddleware(rateLimitStore,
                                  [from |-> callArg.from, user |-> callArg.user,
                                   helpers |-> callArg.helpers,
                                   text |-> callArg.text, cb |-> callArg.cb],
                                  now)
     IN  /\ rateLimitStore' = r.store
         /\ Advance("rateLimit", r.next, r.decision)
  /\ UNCHANGED <<now, rlLog, rlLast, authVars, callArg>>

\* keyboards.js:1113-1115  errorMiddleware: try { await next() }
ErrorStage ==
  /\ callRet.pc = "error"
  /\ Advance("error", TRUE, "none")
  /\ UNCHANGED <<rateVars, authVars, callArg>>

\* index.js:118-230  the handler the update is routed to returns or raises
Handler ==
  /\ callRet.pc = "handler"
  /\ \E returns \in BOOLEAN :
       callRet' = [callRet EXCEPT
                     !.trace = Append(@, Stage("handler", returns, "none")),
                     !.pc = IF returns THEN "idle" ELSE "catch",
                     !.done = returns]
  /\ UNCHANGED <<rateVars, authVars, callArg>>

PipelineErrors ==
  {e \in HandledErrors :
     /\ e.code \in {NoCode, NumberCode(500)}
     /\ e.name = "Error"
     /\ e.message = NoMessage}

\* keyboards.js:1116-1118  catch (error) { await handleError(error, ctx) }
Catch ==
  /\ callRet.pc = "catch"
  /\ LET ctx == [callbackQuery |-> callArg.cb # NoCb, helpers |-> callArg.helpers,
                 updateType |-> "message"]
     IN  \E error \in PipelineErrors, env \in EnvsOfContext(ctx) :
           LET h == handleError(error, ctx, generateErrorId(now, "k3x9a"), env)
           IN  callRet' = [callRet EXCEPT
                             !.trace = Append(@, Stage("catch", ~h.raised, "none")),
                             !.events = h.events,
                             !.raised = h.raised,
                             !.pc = "idle",
                             !.done = TRUE]
  /\ UNCHANGED <<rateVars, authVars, callArg>>

\* the rows the table holds when the process starts
PipelineRows(tg) ==
  {r \in UserRows(tg) :
     \/ r = NoRow
     \/ r.isActive /\ (r.isBlocked => r.preferencesValid) /\ (tg = 1 => ~r.isBlocked)}

InitPipeline ==
  /\ RateStart /\ NormStart /\ SearchStart
  /\ users \in [Senders -> UNION {PipelineRows(tg) : tg \in Senders}]
  /\ \A tg \in Senders : users[tg] \in PipelineRows(tg)
  /\ users[BotId] = NoRow
  /\ users[2] # NoRow
  /\ authLast = NoAuthCall
  /\ callArg = NotCalled
  /\ callRet = Idle(0)

NextPipeline ==
  /\ \/ Receive
     \/ LoggingStage
     \/ AuthStage
     \/ RateLimitStage
     \/ ErrorStage
     \/ Handler
     \/ Catch
  /\ UNCHANGED <<normVars, searchVars>>

(***************************************************************************)
(* normalizeGrade applied to one value, hadith.js:386-402.                 *)
(***************************************************************************)
RECURSIVE StringsUpTo(_, _)
StringsUpTo(alphabet, n) ==
  IF n = 0 THEN {<<>>}
  ELSE LET shorter == StringsUpTo(alphabet, n - 1)
       IN  shorter \cup {Append(s, c) : s \in shorter, c \in alphabet}

GradeValues ==
  {NotAString} \cup
  {Str(chars) : chars \in StringsUpTo(GradeWords \cup {Blank}, MaxGradeLen)}

NormalizeGrade ==
  /\ ~callRet.done
  /\ callRet' = Done(normalizeGrade(callArg))
  /\ UNCHANGED callArg

InitGrade ==
  /\ RateStart /\ AuthStart /\ NormStart /\ SearchStart
  /\ callArg \in GradeValues
  /\ callRet = NotCalled

NextGrade ==
  /\ NormalizeGrade
  /\ UNCHANGED <<rateVars, authVars, normVars, searchVars>>

(***************************************************************************)
(* The source and isVerified fields of normalizeHadithData,                *)
(* hadith.js:240 and 249, for the book and source fields of one element.   *)
(***************************************************************************)
MaxLabelLen == 4

SourceLabels ==
  {Missing, NotAString} \cup
  {Str(chars) :
     chars \in StringsUpTo({Blank, Zwsp, "sahih", "bukhari", "tafsir"}, MaxLabelLen)}

\* hadith.js:240, 249  rawHadith.book || rawHadith.source || ''
SourceFields(book, source) ==
  LET label == Either(book, Either(source, Str(<<>>)))
  IN  [source |-> cleanTextChars(label), isVerified |-> isVerifiedSource(label)]

NormalizeSource ==
  /\ ~callRet.done
  /\ callRet' = Done(SourceFields(callArg.book, callArg.source))
  /\ UNCHANGED callArg

InitSource ==
  /\ RateStart /\ AuthStart /\ NormStart /\ SearchStart
  /\ callArg \in [book : SourceLabels,
                  source : {Missing, Str(<<"musnad", Blank, "ahmad">>)}]
  /\ callRet = NotCalled

NextSource ==
  /\ NormalizeSource
  /\ UNCHANGED <<rateVars, authVars, normVars, searchVars>>

(***************************************************************************)
(* Updates processed concurrently.  Telegraf starts the chain of an update *)
(* without waiting for the chains of earlier updates; the chains           *)
(* interleave where a stage awaits (the storage calls of authMiddleware,   *)
(* the handlers).  rateLimitMiddleware (part_002:15-109) is not an async   *)
(* function and awaits nothing between reading the window and writing it,  *)
(* so one call is one step.                                                *)
(***************************************************************************)
MaxInFlight == 2

InFlight == 1..MaxInFlight

\* the requests of one sender, in two categories
ConcurrentContexts ==
  { [from |-> 2, user |-> [id |-> UserRecordId(2), telegramId |-> 2],
     helpers |-> TRUE, text |-> t, cb |-> NoCb] : t \in {"/random", "hello"} }

\* a window read when the update arrived, before the awaits of the auth gate
StoreAtArrival(p) == callArg[p].arrival

\* part_002:34-42  rateLimitStore.has / set / get, in the call itself
StoreOfCall(p) == rateLimitStore

\* Telegraf starts the chain of an update
Arrive(p) ==
  /\ callArg[p].pc = "waiting"
  /\ callArg' = [callArg EXCEPT ![p].pc = "auth", ![p].arrival = rateLimitStore]
  /\ UNCHANGED <<rateVars, callRet>>

\* the awaits of authMiddleware return and it calls next()
AuthReturns(p) ==
  /\ callArg[p].pc = "auth"
  /\ callArg' = [callArg EXCEPT ![p].pc = "rateLimit"]
  /\ UNCHANGED <<rateVars, callRet>>

\* history appended to rlLog for one decision
Decided(log, r, t) ==
  [k \in DOMAIN log \cup {r.key} |->
     IF k = r.key
       THEN Append(IF k \in DOMAIN log THEN log[k] ELSE <<>>,
                   [t |-> t, d |-> r.decision, limit |-> r.rl.limit,
                    window |-> r.rl.window, next |-> r.next,
                    remaining |-> r.remaining,
                    blockedUntil |-> r.store[r.key].blockedUntil])
       ELSE log[k]]

\* part_002:15-109, one call
LimitedConcurrently(p, r) ==
  /\ rateLimitStore' = [k \in DOMAIN rateLimitStore \cup DOMAIN r.store |->
                          IF k \in DOMAIN r.store THEN r.store[k]
                          ELSE rateLimitStore[k]]
  /\ rlLast' = [decision |-> r.decision, next |-> r.next, error |-> r.error,
                remaining |-> r.remaining]
  /\ rlLog' = IF Keyed(r.decision) THEN Decided(rlLog, r, now) ELSE rlLog
  /\ callArg' = [callArg EXCEPT ![p].pc = IF r.next THEN "handler" ELSE "done"]

RateLimitConcurrently(p) ==
  /\ callArg[p].pc = "rateLimit"
  /\ LimitedConcurrently(p, rateLimitMiddleware(StoreOfCall(p), callArg[p].ctx, now))
  /\ UNCHANGED <<now, callRet>>

\* the handler of the update returns
HandlerReturns(p) ==
  /\ callArg[p].pc = "handler"
  /\ callArg' = [callArg EXCEPT ![p].pc = "done"]
  /\ UNCHANGED <<rateVars, callRet>>

InitConcurrent ==
  /\ RateStart /\ AuthStart /\ NormStart /\ SearchStart
  /\ callArg \in [InFlight -> {[ctx |-> ctx, pc |-> "waiting", arrival |-> EmptyMap] :
                                 ctx \in ConcurrentContexts}]
  /\ callRet = NotCalled

NextConcurrent ==
  /\ \/ \E p \in InFlight : Arrive(p)
     \/ \E p \in InFlight : AuthReturns(p)
     \/ \E p \in InFlight : RateLimitConcurrently(p)
     \/ \E p \in InFlight : HandlerReturns(p)
     \/ Cleanup /\ UNCHANGED callVars
     \/ Tick /\ UNCHANGED callVars
  /\ UNCHANGED <<authVars, normVars, searchVars>>

(***************************************************************************)
(* The windows of two senders, part_002:16-42.  Sender 2 passes the auth   *)
(* gate, so that its key is the id column of its row; sender 1 arrives on  *)
(* a gate that failed open, so that its key is its platform ID.  The id    *)
(* column is assigned by the storage (db.user.findOrCreate passes none,    *)
(* logger.js:672-678): the row of sender 2 is the first row of the table   *)
(* or a later one.                                                         *)
(***************************************************************************)
AssignedIds == {1, UserRecordId(2)}

IndependentContexts ==
  { [from |-> 2, user |-> [id |-> id, telegramId |-> 2], helpers |-> TRUE,
     text |-> t, cb |-> NoCb] : id \in AssignedIds, t \in {"/random", "hello"} }
  \cup
  { [from |-> 1, user |-> NoUser, helpers |-> FALSE, text |-> t, cb |-> NoCb] :
      t \in {"/random", "hello"} }

\* part_002:30  `${userId}:${operation}`
rateLimitKey(ctx) == <<RateUserId(ctx), determineRateLimit(ctx).operation>>

\* history: the senders whose requests were checked against each window
NoSenders == [k \in {} |-> {}]

Checked(senders, ctx) ==
  [k \in DOMAIN senders \cup {rateLimitKey(ctx)} |->
     (IF k \in DOMAIN senders THEN senders[k] ELSE {}) \cup
     (IF k = rateLimitKey(ctx) THEN {ctx.from} ELSE {})]

\* the row of sender 2 keeps the id it was created with
SameRow(ctx) ==
  \A k \in DOMAIN callArg.senders :
    (ctx.from = 2 /\ 2 \in callArg.senders[k]) => k[1] = ctx.user.id

RateLimitOfSender(ctx) ==
  /\ SameRow(ctx)
  /\ RateLimit(ctx)
  /\ callArg' = [callArg EXCEPT !.senders = Checked(@, ctx)]
  /\ UNCHANGED callRet

InitIndependent ==
  /\ RateStart /\ AuthStart /\ NormStart /\ SearchStart
  /\ callArg = [done |-> FALSE, senders |-> NoSenders]
  /\ callRet = NotCalled

NextIndependent ==
  /\ \/ \E ctx \in IndependentContexts : RateLimitOfSender(ctx)
     \/ Tick /\ UNCHANGED callVars
  /\ UNCHANGED <<authVars, normVars, searchVars>>

(***************************************************************************)
(* The requests of the limiter run on two stores: rateLimitStore, which    *)
(* cleanupRateLimitStore (part_002:236-253) sweeps at arbitrary moments,   *)
(* and a copy that is never swept.                                         *)
(***************************************************************************)
WindowOrNew(store, key) == IF key \in DOMAIN store THEN store[key] ELSE NewWindow

\* the decision of one call, as seen by the sender
Outcome(r) == [decision |-> r.decision, next |-> r.next, error |-> r.error]

\* swept, unswept: the outcome on either store; differed: whether the two
\* stores held different windows for the key when the request came
Compared(swept, unswept, ctx) ==
  [swept |-> Outcome(swept), unswept |-> Outcome(unswept),
   differed |-> WindowOrNew(rateLimitStore, swept.key) #
                WindowOrNew(callArg.unswept, unswept.key)]

RequestOnBoth(ctx) ==
  /\ callArg.count < MaxReq
  /\ rateLimitStore' = rateLimitMiddleware(rateLimitStore, ctx, now).store
  /\ callArg' = [callArg EXCEPT
                   !.unswept = rateLimitMiddleware(callArg.unswept, ctx, now).store,
                   !.count = @ + 1]
  /\ callRet' = Done(Compared(rateLimitMiddleware(rateLimitStore, ctx, now),
                              rateLimitMiddleware(callArg.unswept, ctx, now), ctx))
  /\ UNCHANGED <<now, rlLog, rlLast>>

InitSweep ==
  /\ RateStart /\ AuthStart /\ NormStart /\ SearchStart
  /\ callArg = [done |-> FALSE, unswept |-> EmptyMap, count |-> 0]
  /\ callRet = NotCalled

NextSweep ==
  /\ \/ \E ctx \in ConcurrentContexts : RequestOnBoth(ctx)
     \/ Cleanup /\ UNCHANGED callVars
     \/ Tick /\ UNCHANGED callVars
  /\ UNCHANGED <<authVars, normVars, searchVars>>

(***************************************************************************)
(* ctx.setUserPreference (auth.js:251-273) on the session that             *)
(* authMiddleware filled from the stored row (auth.js:66-74).  The stored  *)
(* column holds the JSON text of the map (logger.js:700-710), modelled as  *)
(* the set of its members.                                                 *)
(***************************************************************************)
PreferenceKeys == {"language", "notifications"}
PreferenceValues == {"ar", "en"}

NoPreferences == [k \in PreferenceKeys |-> Undefined]

\* JSON.stringify drops the properties that are undefined
JSONstringify(map) == {<<k, map[k]>> : k \in {j \in DOMAIN map : map[j] # Undefined}}

JSONparse(text) ==
  [k \in PreferenceKeys |->
     IF \E v \in PreferenceValues : <<k, v>> \in text
     THEN CHOOSE v \in PreferenceValues : <<k, v>> \in text
     ELSE Undefined]

PreferenceTexts == {JSONstringify(m) : m \in [PreferenceKeys -> PreferenceValues \cup {Undefined}]}

\* ctx.session.user as authMiddleware sets it; the other fields play no part
SessionUser(row) == [isNull |-> FALSE, preferences |-> JSONparse(row)]

\* db.user.updatePreferences: the column after the write, or a throw
updatePreferences(stored, preferences, writeOk) ==
  IF writeOk THEN [threw |-> FALSE, stored |-> JSONstringify(preferences)]
  ELSE [threw |-> TRUE, stored |-> stored]

\* preferences is the session's own object when there is one, so the
\* assignment preferences[key] = value is visible in the session at once
setUserPreference(ctx, stored, key, value, writeOk) ==
  IF ~ctx.user THEN [returned |-> FALSE, session |-> ctx.session, stored |-> stored]
  ELSE LET preferences == IF ctx.session.isNull THEN NoPreferences
                          ELSE ctx.session.preferences
           assigned == [preferences EXCEPT ![key] = value]
           session == IF ctx.session.isNull THEN ctx.session
                      ELSE [ctx.session EXCEPT !.preferences = assigned]
           write == updatePreferences(stored, assigned, writeOk)
       IN  IF write.threw
           THEN [returned |-> FALSE, session |-> session, stored |-> write.stored]
           ELSE [returned |-> TRUE, session |-> session, stored |-> write.stored]

SetUserPreference(key, value, writeOk) ==
  LET r == setUserPreference(callArg, callArg.stored, key, value, writeOk)
  IN  /\ callArg' = [callArg EXCEPT !.session = r.session, !.stored = r.stored]
      /\ callRet' = Done([key |-> key, value |-> value, writeOk |-> writeOk,
                          returned |-> r.returned,
                          sessionBefore |-> callArg.session,
                          storedBefore |-> callArg.stored])

\* the next update of the sender: authMiddleware reads the row again
LoadSession ==
  /\ callArg' = [callArg EXCEPT !.session = SessionUser(callArg.stored)]
  /\ callRet' = NotCalled

InitPreference ==
  /\ RateStart /\ AuthStart /\ NormStart /\ SearchStart
  /\ \E row \in PreferenceTexts :
       callArg = [done |-> FALSE, user |-> TRUE, session |-> SessionUser(row),
                  stored |-> row]
  /\ callRet = NotCalled

NextPreference ==
  /\ \/ \E key \in PreferenceKeys, value \in PreferenceValues, writeOk \in BOOLEAN :
          SetUserPreference(key, value, writeOk)
     \/ LoadSession
  /\ UNCHANGED <<rateVars, authVars, normVars, searchVars>>

vars == <<now, rateLimitStore, rlLog, rlLast, users, authLast,
          hadiths, uuids, createdId, normLast, procLast,
          cache, searchPrev, searchLast, handlerLast, getLast,
          callArg, callRet>>

Init == InitRate

SpecRate == InitRate /\ [][NextRate]_vars

SpecAuth == InitAuth /\ [][NextAuth]_vars

SpecNorm == InitNorm /\ [][NextNorm]_vars

SpecProc == InitProc /\ [][NextProc]_vars

SpecSearch == InitSearch /\ [][NextSearch]_vars

SpecText == InitText /\ [][NextText]_vars

SpecCache == InitCache /\ [][NextCache]_vars

SpecLimit == InitLimit /\ [][NextLimit]_vars

SpecBlock == InitBlock /\ [][NextBlock]_vars

SpecRandom == InitRandom /\ [][NextRandom]_vars

SpecById == InitById /\ [][NextById]_vars

SpecError == InitError /\ [][NextError]_vars

SpecRespond == InitRespond /\ [][NextRespond]_vars

SpecSave == InitSave /\ [][NextSave]_vars

SpecPipeline == InitPipeline /\ [][NextPipeline]_vars

SpecGrade == InitGrade /\ [][NextGrade]_vars

SpecSource == InitSource /\ [][NextSource]_vars

SpecConcurrent == InitConcurrent /\ [][NextConcurrent]_vars

SpecIndependent == InitIndependent /\ [][NextIndependent]_vars

SpecSweep == InitSweep /\ [][NextSweep]_vars

SpecPreference == InitPreference /\ [][NextPreference]_vars

(***************************************************************************)
(* C1.  For every (user, operation) key with limit L >= 1 and window W:    *)
(* starting from an empty window, the first L requests made within W of    *)
(* the first one are all allowed; the (L+1)th request within that window   *)
(* is rejected and sets a block expiring W after it; and the first request *)
(* made at or after that expiry is allowed again.  "Allowed" and           *)
(* "rejected" are the limiter's decisions (the branch it takes).           *)
(***************************************************************************)
C1_LimitThenBlockThenAllow ==
  \A k \in DOMAIN rlLog :
    LET h == rlLog[k]
        L == h[1].limit
        W == h[1].window
        full == Len(h) > L /\ h[L + 1].t - h[1].t < W
    IN  /\ L >= 1
        /\ \A i \in 1..Len(h) :
             (i <= L /\ h[i].t - h[1].t < W) => h[i].d = "allowed"
        /\ full => /\ h[L + 1].d = "limited"
                   /\ h[L + 1].blockedUntil = h[L + 1].t + W
        /\ \A j \in (L + 2)..Len(h) :
             ( /\ full
               /\ h[j].t >= h[L + 1].t + W
               /\ \A m \in (L + 2)..(j - 1) : h[m].t < h[L + 1].t + W )
             => h[j].d = "allowed"

\* a key with limit 2: two allowed, the third limited, a later one after the
\* block expired allowed again
C1_Witness ==
  \E k \in DOMAIN rlLog :
    LET h == rlLog[k]
    IN  /\ Len(h) = 4
        /\ h[1].limit = 2
        /\ h[1].d = "allowed" /\ h[2].d = "allowed"
        /\ h[3].d = "limited"
        /\ h[3].t - h[1].t < h[1].window
        /\ h[4].d = "allowed"
        /\ h[4].t >= h[3].t + h[1].window

(***************************************************************************)
(* C2.  For a user whose stored row has isBlocked = true, every update     *)
(* handled by authMiddleware produces the blocked-user message and never   *)
(* invokes the downstream chain, also when sending that message fails.     *)
(***************************************************************************)
C2_BlockedNeverDownstream ==
  authLast.row.isBlocked =>
    /\ authLast.message \in {"blocked", "blocked_failed"}
    /\ authLast.next = 0

(***************************************************************************)
(* C7.  For a response array of N elements of which K fail normalization   *)
(* (they throw, or yield neither free text nor primary-script text),       *)
(* processSearchResponse returns exactly N - K records, in the order of    *)
(* the surviving elements; a failing element never drops the others; a     *)
(* response that is not an array yields the empty list.                    *)
(***************************************************************************)
FailsNormalization(raw) ==
  \/ NormalizeThrows(raw)
  \/ /\ cleanText(OrElse(raw.hadith, OrElse(raw.text, ""))) = ""
     /\ cleanArabicText(OrElse(raw.arabic, OrElse(raw.hadith, ""))) = ""

Survivors(items) ==
  LET Survives(raw) == ~FailsNormalization(raw)
  IN  SelectSeq(items, Survives)

C7_SurvivorsInOrder ==
  procLast.called =>
    LET items == procLast.response.items
        kept == Survivors(items)
        result == procLast.result
    IN  /\ ~procLast.response.isArray => result = <<>>
        /\ Len(result) = Len(kept)
        /\ \A j \in 1..Len(result) :
             /\ result[j].dorarId = kept[j].id
             /\ result[j].text = HadithData(kept[j], 0).text
             /\ result[j].arabicText = HadithData(kept[j], 0).arabicText

\* N = 2, K = 1: the first element throws and the second is still returned
C7_Witness ==
  /\ procLast.called
  /\ Len(procLast.response.items) = 2
  /\ NormalizeThrows(procLast.response.items[1])
  /\ ~FailsNormalization(procLast.response.items[2])
  /\ Len(procLast.result) = 1

(***************************************************************************)
(* C8.  As claimed: for an element carrying an external-source ID (and    *)
(* text, so that it is saved) whose ID is already stored with other field  *)
(* values, normalize-and-save leaves exactly one row with that ID, holding *)
(* the content of this second call.                                        *)
(***************************************************************************)
RefreshesStoredRow(call) ==
  /\ call.called
  /\ ~FailsNormalization(call.raw)
  /\ call.raw.id # 0
  /\ \E r \in call.before :
       \/ r.text # HadithData(call.raw, 0).text
       \/ r.arabicText # HadithData(call.raw, 0).arabicText

OneRowWithContentOf(call) ==
  /\ Cardinality(RowsWithDorarId(hadiths, call.raw.id)) = 1
  /\ \A r \in RowsWithDorarId(hadiths, call.raw.id) :
       /\ r.text = HadithData(call.raw, 0).text
       /\ r.arabicText = HadithData(call.raw, 0).arabicText

C8_SecondCallWins ==
  RefreshesStoredRow(normLast) => OneRowWithContentOf(normLast)

(***************************************************************************)
(* C8, amended.  The same, for a second call whose storage operations      *)
(* succeed; when they fail the row keeps the content of the first call.    *)
(***************************************************************************)
C8_SecondCallWinsWhenSaved ==
  /\ (RefreshesStoredRow(normLast) /\ normLast.saved)
       => OneRowWithContentOf(normLast)
  /\ (RefreshesStoredRow(normLast) /\ ~normLast.saved)
       => RowsWithDorarId(hadiths, normLast.raw.id) = normLast.before

C8_Witness ==
  /\ RefreshesStoredRow(normLast)
  /\ normLast.saved
  /\ OneRowWithContentOf(normLast)

(***************************************************************************)
(* C9.  The internal ID of a stored record is generated once, when the     *)
(* record is created, and never changes: after any sequence of             *)
(* normalize-and-save calls refreshing it through its external-source ID   *)
(* the record has the internal ID it was created with.                     *)
(***************************************************************************)
C9_InternalIdStable ==
  \A r \in hadiths : r.dorarId # 0 => r.id = createdId[r.dorarId]

(***************************************************************************)
(* C3.  As claimed: of two consecutive search calls with the same          *)
(* non-empty query and the same options, the second made before the TTL    *)
(* has elapsed and the first starting from a cache miss, the first issues  *)
(* the one external request and the second is served from the cache.       *)
(***************************************************************************)
ConsecutiveIdentical ==
  /\ searchPrev.called
  /\ searchLast.called
  /\ ~QueryInvalid(searchLast.query)
  /\ searchPrev.query = searchLast.query
  /\ searchPrev.options = searchLast.options
  /\ searchPrev.served # "cache"
  /\ searchLast.t < searchPrev.t + CacheTtl

OneRequestInTotal ==
  /\ searchPrev.served \in {"api", "failed"}
  /\ ~searchLast.requested
  /\ searchLast.served = "cache"

C3_SecondCallFromCache == ConsecutiveIdentical => OneRequestInTotal

(***************************************************************************)
(* C3, amended.  The same, when the request of the first call succeeds,    *)
(* its cache write succeeds and the cache read of the second call          *)
(* succeeds.                                                               *)
(***************************************************************************)
C3_SecondCallFromCacheWhenStored ==
  ( /\ ConsecutiveIdentical
    /\ searchPrev.served = "api"
    /\ searchPrev.cacheWritten
    /\ searchLast.readOk )
  => OneRequestInTotal

C3_Witness ==
  /\ ConsecutiveIdentical
  /\ searchPrev.served = "api"
  /\ searchPrev.cacheWritten
  /\ searchLast.readOk
  /\ searchLast.t > searchPrev.t
  /\ searchLast.served = "cache"
  /\ searchLast.result # <<>>

(***************************************************************************)
(* C4.  A search call whose query is not a string or is empty after        *)
(* trimming issues no request, reads and writes no cache entry and writes  *)
(* no record; a handleTextSearch call whose text has trimmed length below  *)
(* 2 takes the prompt arm, where the prompt is what safeReply is given,    *)
(* and does not call search.                                               *)
(***************************************************************************)
EmptyAfterTrim(query) == ~query.isString \/ Len(Trim(query.chars)) = 0

C4_InvalidQueryTouchesNothing ==
  /\ (searchLast.called /\ EmptyAfterTrim(searchLast.query))
       => /\ ~searchLast.requested
          /\ ~searchLast.cacheRead
          /\ ~searchLast.cacheWritten
          /\ ~searchLast.cacheChanged
          /\ ~searchLast.recordWritten
  /\ (handlerLast.called /\ Len(Trim(handlerLast.text)) < 2)
       => /\ handlerLast.branch = "prompt"
          /\ ~handlerLast.searchCalled
          /\ (handlerLast.helpers /\ handlerLast.reply = "ok")
               => handlerLast.sent = "prompt"

C4_Witness ==
  /\ searchLast.called
  /\ searchLast.query = Str(<<Blank>>)
  /\ ~searchLast.requested
  /\ handlerLast.called
  /\ handlerLast.text = <<"a", Blank>>
  /\ handlerLast.sent = "prompt"
  /\ cache = FilledCache

(***************************************************************************)
(* C5.  As claimed: a search call whose query is empty after trimming      *)
(* ends in an error raised to the caller.                                  *)
(***************************************************************************)
C5_InvalidQueryRaises ==
  (searchLast.called /\ EmptyAfterTrim(searchLast.query)) => searchLast.raised

(***************************************************************************)
(* C6.  As claimed: no search call raises; a call whose request failed     *)
(* returns the empty list and ends with no cache entry under its key.      *)
(***************************************************************************)
C6_FailureLeavesNoEntry ==
  searchLast.called =>
    /\ ~searchLast.raised
    /\ searchLast.served = "failed"
         => (searchLast.result = <<>> /\ ~searchLast.entryAfter)

(***************************************************************************)
(* C6, amended.  No search call raises, whatever fails (request, cache     *)
(* read, cache delete, cache write, record storage); a call whose request  *)
(* failed returns the empty list and writes no cache entry: an entry is    *)
(* under its key afterwards only if one was there before.                  *)
(***************************************************************************)
C6_FailureWritesNoEntry ==
  searchLast.called =>
    /\ ~searchLast.raised
    /\ searchLast.served = "failed"
         => /\ searchLast.result = <<>>
            /\ ~searchLast.cacheWritten
            /\ searchLast.entryAfter => searchLast.entryBefore

C6_Witness ==
  /\ searchLast.called
  /\ searchLast.served = "failed"
  /\ searchLast.requested
  /\ ~searchLast.raised
  /\ searchLast.result = <<>>
  /\ searchLast.entryBefore
  /\ ~searchLast.entryAfter

(***************************************************************************)
(* C10.  As claimed: db.cache.get on an entry whose expiry is strictly in  *)
(* the past misses and leaves no entry under the key, so that every later  *)
(* get misses; on an unexpired entry it returns the parsed stored value    *)
(* and leaves the entry as it was.                                         *)
(***************************************************************************)
GotExpired == getLast.called /\ getLast.present /\ getLast.before.expiresAt < getLast.t

GotUnexpired ==
  getLast.called /\ getLast.present /\ getLast.before.expiresAt >= getLast.t

EntryGone ==
  /\ getLast.key \notin DOMAIN cache
  /\ \A readOk \in BOOLEAN, deleteOk \in BOOLEAN :
       cacheGet(cache, getLast.key, now, readOk, deleteOk).got = Miss

EntryKept ==
  /\ getLast.key \in DOMAIN cache
  /\ cache[getLast.key] = getLast.before

C10_ExpiredDeletedUnexpiredServed ==
  /\ GotExpired => (getLast.got = Miss /\ EntryGone)
  /\ GotUnexpired => (getLast.got = Hit(JsonParse(getLast.before.data)) /\ EntryKept)

(***************************************************************************)
(* C10, amended.  A get on an expired entry always misses, and removes     *)
(* the entry when the storage read and delete succeed (otherwise the       *)
(* entry stays, and later gets still miss); a get on an unexpired entry    *)
(* always leaves it in place, and returns the parsed stored value when     *)
(* the storage read succeeds (otherwise it misses).                        *)
(***************************************************************************)
C10_ExpiredDeletedWhenStorageWorks ==
  /\ GotExpired =>
       /\ getLast.got = Miss
       /\ (getLast.readOk /\ getLast.deleteOk) => EntryGone
       /\ ~(getLast.readOk /\ getLast.deleteOk) => EntryKept
       /\ \A readOk \in BOOLEAN, deleteOk \in BOOLEAN :
            cacheGet(cache, getLast.key, now, readOk, deleteOk).got = Miss
  /\ GotUnexpired =>
       /\ EntryKept
       /\ getLast.got =
            IF getLast.readOk THEN Hit(JsonParse(getLast.before.data)) ELSE Miss

C10_Witness ==
  /\ GotExpired
  /\ getLast.readOk
  /\ getLast.deleteOk
  /\ getLast.before.data = JsonStringify(<<StoredRow>>)
  /\ EntryGone
  /\ now > getLast.t

(***************************************************************************)
(* C11.  As claimed: two search calls that differ in trimmed query or in   *)
(* options have different cache keys, so a call served from the cache      *)
(* follows a call with the same trimmed query and the same options.        *)
(***************************************************************************)
KeyOfCall(call) == generateCacheKey(Trim(call.query.chars), call.options)

SameSearch(a, b) ==
  /\ Trim(a.query.chars) = Trim(b.query.chars)
  /\ a.options = b.options

C11_DistinctSearchesDistinctKeys ==
  ( /\ searchPrev.called
    /\ searchLast.called
    /\ ~QueryInvalid(searchPrev.query)
    /\ ~QueryInvalid(searchLast.query) )
  => /\ ~SameSearch(searchPrev, searchLast)
          => KeyOfCall(searchPrev) # KeyOfCall(searchLast)
     /\ searchLast.served = "cache" => SameSearch(searchPrev, searchLast)

(***************************************************************************)
(* C12.  An authMiddleware call in which an exception is raised before     *)
(* the downstream chain is invoked (find-or-create, reactivation write,    *)
(* preference parsing) catches it and invokes the downstream chain, once.  *)
(***************************************************************************)
RaisedBeforeNext == authLast.caught /\ ~authLast.helpers

C12_ExceptionFailsOpen == RaisedBeforeNext => authLast.next = 1

C12_Witness ==
  /\ RaisedBeforeNext
  /\ authLast.row # NoRow
  /\ ~authLast.row.isBlocked
  /\ ~authLast.row.isActive
  /\ authLast.user = NoUser
  /\ authLast.next = 1

(***************************************************************************)
(* C13.  An authMiddleware call for an update without sender, or whose     *)
(* sender is a bot other than the bot itself, invokes nothing downstream,  *)
(* sends no message, looks up and creates no user and raises nothing; an   *)
(* update sent by the bot itself goes on to the user find-or-create.       *)
(***************************************************************************)
C13_SenderlessAndBotsDropped ==
  /\ (authLast.from = 0 \/ (authLast.isBot /\ authLast.from # BotId))
       => /\ authLast.next = 0
          /\ authLast.message = "none"
          /\ authLast.row = NoRow
          /\ ~authLast.tableChanged
          /\ ~authLast.caught
  /\ (authLast.isBot /\ authLast.from = BotId)
       => (authLast.caught \/ authLast.row # NoRow)

C13_Witness ==
  /\ authLast.isBot
  /\ authLast.from = BotId
  /\ authLast.row # NoRow
  /\ authLast.tableChanged
  /\ authLast.next = 1

(***************************************************************************)
(* C14.  As claimed: in every operation category the limit is the          *)
(* configured base limit of the category, times the administrator          *)
(* multiplier when the context carries the administrator, and the window   *)
(* is the configured window.                                               *)
(***************************************************************************)
BaseLimit(operation) ==
  CASE operation = "search" -> SearchRequests
    [] operation = "random" -> RandomRequests
    [] operation = "favorite" -> FavoriteRequests
    [] operation = "admin" -> AdminRequests
    [] operation = "command" -> CommandRequests
    [] operation = "callback" -> CallbackRequests

IsAdministrator(ctx) == ctx.user.telegramId = AdminId

Categorized == callRet.done /\ callRet.value.operation \in Operations

C14_AdminLimitsMultiplied ==
  Categorized =>
    /\ callRet.value.window = Window
    /\ callRet.value.limit =
         BaseLimit(callRet.value.operation)
           * (IF IsAdministrator(callArg) THEN AdminMultiplier ELSE 1)

(***************************************************************************)
(* C14, amended.  The same in the categories search, random, favorite,     *)
(* generic command and generic callback; in the admin category, which      *)
(* only the administrator reaches, the limit is the configured admin       *)
(* limit, not multiplied.                                                  *)
(***************************************************************************)
C14_AdminLimitsMultipliedButAdmin ==
  Categorized =>
    /\ callRet.value.operation \in Operations
    /\ callRet.value.window = Window
    /\ callRet.value.operation = "admin" =>
         (IsAdministrator(callArg) /\ callRet.value.limit = AdminRequests)
    /\ callRet.value.operation # "admin" =>
         callRet.value.limit =
           BaseLimit(callRet.value.operation)
             * (IF IsAdministrator(callArg) THEN AdminMultiplier ELSE 1)

C14_Witness ==
  /\ Categorized
  /\ IsAdministrator(callArg)
  /\ callRet.value.operation = "callback"
  /\ callRet.value.limit = CallbackRequests * AdminMultiplier

(***************************************************************************)
(* C15.  A rateLimitMiddleware call in which an error is raised (the       *)
(* callback data is missing, or ctx.safeReply does not exist when the      *)
(* limiter goes to reject) ends in the catch, which invokes the            *)
(* downstream chain.                                                       *)
(***************************************************************************)
C15_LimiterFailsOpen == rlLast.error => rlLast.next

C15_Witness ==
  /\ rlLast.error
  /\ rlLast.decision = "limited"
  /\ rlLast.next

(***************************************************************************)
(* C16.  As claimed: every step that runs cleanupRateLimitStore leaves in  *)
(* the store exactly the windows that hold a request timestamp younger     *)
(* than the max-age or a block whose expiry is still in the future.        *)
(***************************************************************************)
HasRecentRequest(data, currentTime) ==
  \E i \in 1..Len(data.requests) : currentTime - data.requests[i] < MaxAge

HasUnexpiredBlock(data, currentTime) ==
  data.blocked /\ currentTime < data.blockedUntil

Evictable(data, currentTime) ==
  ~HasRecentRequest(data, currentTime) /\ ~HasUnexpiredBlock(data, currentTime)

C16_CleanupEvictsIdleWindows ==
  [][ rateLimitStore' = cleanupRateLimitStore(rateLimitStore, now)
        => /\ \A k \in DOMAIN rateLimitStore' :
                ~Evictable(rateLimitStore'[k], now)
           /\ \A k \in DOMAIN rateLimitStore :
                ~Evictable(rateLimitStore[k], now) => k \in DOMAIN rateLimitStore' ]_vars

(***************************************************************************)
(* C17.  As claimed: after setUserBlock(user, true, d) at time t, every    *)
(* rate-limited request of the user made before t + d, under any key, is   *)
(* rejected; after setUserBlock(user, false) a request of the user is      *)
(* rejected as blocked only after the limiter itself has set a new block   *)
(* on that key.                                                            *)
(***************************************************************************)
LoggedAtCall(k) ==
  IF k \in DOMAIN callRet.value.logged THEN callRet.value.logged[k] ELSE 0

\* the decisions taken for the user named in the call, after the call
SinceCall(k) ==
  {i \in 1..Len(rlLog[k]) : k[1] = callArg.userId /\ i > LoggedAtCall(k)}

C17_BlockRejectsUnblockReleases ==
  callRet.done =>
    \A k \in DOMAIN rlLog : \A i \in SinceCall(k) :
      /\ (callArg.blocked /\ rlLog[k][i].t < callArg.t + callArg.duration)
           => rlLog[k][i].d \in {"blocked", "limited"}
      /\ (~callArg.blocked /\ rlLog[k][i].d = "blocked")
           => \E j \in SinceCall(k) : j < i /\ rlLog[k][j].d = "limited"

(***************************************************************************)
(* C18.  getRandom issues an external search only when storage holds no    *)
(* record matching the filters; whenever storage holds at least one        *)
(* matching record, getRandom returns a record from storage and issues no  *)
(* external request.  When neither storage nor the external search yields  *)
(* a record, getRandom returns empty and raises no error.                  *)
(***************************************************************************)
RandomCalled == callRet.done

StorageMatches == {r \in callArg.rows : MatchesFilters(r, callArg.filters)}

VerifiedMatches == {r \in callArg.rows : WhereClause(r, callArg.filters)}

LookupWorked == callArg.countOk /\ callArg.findOk

FromStorage(matching) ==
  /\ callRet.value.result.found
  /\ callRet.value.result.value \in matching
  /\ ~callRet.value.searched
  /\ ~callRet.value.requested

NeverRaises == ~callRet.value.raised

C18_SearchOnlyWithoutMatch ==
  RandomCalled =>
    /\ callRet.value.searched => StorageMatches = {}
    /\ StorageMatches # {} => FromStorage(StorageMatches)
    /\ NeverRaises

\* C18 as the code has it: the lookup only sees records of a verified
\* source and may itself fail; the external search runs exactly when the
\* lookup hands back nothing
C18_SearchOnlyWithoutVerifiedMatch ==
  RandomCalled =>
    /\ callRet.value.searched => (VerifiedMatches = {} \/ ~LookupWorked)
    /\ (VerifiedMatches # {} /\ LookupWorked) => FromStorage(VerifiedMatches)
    /\ NeverRaises

C18_Witness ==
  /\ RandomCalled
  /\ VerifiedMatches # {}
  /\ LookupWorked
  /\ callRet.value.result.found
  /\ callArg.filters.source = "bukhari"

(***************************************************************************)
(* C19.  Whenever the lookup in getById finds the record, getById returns  *)
(* that record, whether or not the search-count increment write succeeds;  *)
(* a successful increment raises the stored search-count by exactly 1, and *)
(* a lookup that finds nothing changes no counter and returns empty.       *)
(***************************************************************************)
LookedUp == {r \in callArg.rows : r.id = callArg.hadithId}

LookupFound == callArg.findOk /\ LookedUp # {}

LookupFoundNothing == callArg.findOk /\ LookedUp = {}

CountOf(rows, id) == (CHOOSE r \in rows : r.id = id).searchCount

C19_FoundRecordReturned ==
  callRet.done =>
    /\ LookupFound => /\ callRet.value.result.found
                      /\ callRet.value.result.value \in LookedUp
    /\ (LookupFound /\ callArg.updateOk) =>
         /\ CountOf(hadiths, callArg.hadithId)
              = CountOf(callArg.rows, callArg.hadithId) + 1
         /\ \A r \in callArg.rows : r.id # callArg.hadithId => r \in hadiths
    /\ LookupFoundNothing => /\ hadiths = callArg.rows
                             /\ ~callRet.value.result.found

(***************************************************************************)
(* C20.  categorizeError assigns every error exactly one category by the   *)
(* ordered rules: a numeric transport status code first (400, 401, 403,    *)
(* 404 and 5xx mapped individually, 429 as rate-limited); else a           *)
(* persistence-layer signature gives 'database'; else a connection-failure *)
(* code (ECONNREFUSED, ETIMEDOUT) gives 'network'; else a validation       *)
(* signature gives 'validation'; else a rate-limit message gives           *)
(* 'rate_limit'; else 'general'.                                           *)
(***************************************************************************)
HasStatusCode(error) == error.code.type = "number" /\ error.code.number # 0

HasPersistenceSignature(error) ==
  NameIncludesPrisma(error.name) \/ MessageIncludes(error.message, "database")

HasConnectionFailureCode(error) ==
  CodeIs(error.code, "ECONNREFUSED") \/ CodeIs(error.code, "ETIMEDOUT")

HasValidationSignature(error) ==
  error.name = "ValidationError" \/ MessageIncludes(error.message, "validation")

\* the categories a status code may be given: the named ones are fixed, a
\* 5xx is a server error or the transport's own category, any other code is
\* the transport's own category
StatusCategories(n) ==
  IF n = 400 THEN {"bad_request"}
  ELSE IF n = 401 THEN {"unauthorized"}
  ELSE IF n = 403 THEN {"forbidden"}
  ELSE IF n = 404 THEN {"not_found"}
  ELSE IF n = 429 THEN {"rate_limited"}
  ELSE IF n >= 500 /\ n <= 599 THEN {"server_error", "telegram_api"}
  ELSE {"telegram_api"}

OrderedRules(error) ==
  IF HasStatusCode(error) THEN StatusCategories(error.code.number)
  ELSE IF HasPersistenceSignature(error) THEN {"database"}
  ELSE IF HasConnectionFailureCode(error) THEN {"network"}
  ELSE IF HasValidationSignature(error) THEN {"validation"}
  ELSE IF MessageIncludes(error.message, "rate limit") THEN {"rate_limit"}
  ELSE {"general"}

C20_CategoryByOrderedRules ==
  callRet.done => callRet.value \in OrderedRules(callArg)

(***************************************************************************)
(* C21.  For every error handled by handleError, whatever its category,    *)
(* the message sent to the user contains the error-id that was generated   *)
(* and logged for that error.                                              *)
(***************************************************************************)
Handled == callRet.done

Events == callRet.value.events

LoggedErrorId == Events[1].text.errorId

\* the sends and edits of the error message itself
MessageAttempts ==
  {i \in 1..Len(Events) :
     /\ Events[i].kind = "send"
     /\ Events[i].text.template \notin {"acknowledgment", "simple", "minimal"}}

C21_MessageCarriesErrorId ==
  Handled => \A i \in MessageAttempts : Events[i].text.errorId = LoggedErrorId

(***************************************************************************)
(* C22.  The error responder never re-throws: if the primary send of the   *)
(* error message fails it attempts a minimal fallback plaintext message,   *)
(* and if that also fails the failure is only logged; for every            *)
(* combination of failing send, edit and answer operations errorMiddleware *)
(* completes without raising an error.                                     *)
(***************************************************************************)
FallbackTemplates == {"simple", "minimal"}

IsFallback(event) == event.kind = "send" /\ event.text.template \in FallbackTemplates

\* the helpers are missing, or every send and edit of the message failed
PrimaryFailed ==
  \/ ~callArg.ctx.helpers
  \/ \A i \in MessageAttempts : ~Events[i].ok

C22_ResponderNeverRaises ==
  Handled =>
    /\ ~callRet.value.raised
    /\ PrimaryFailed => \E i \in 1..Len(Events) : IsFallback(Events[i])
    /\ \A i \in 1..Len(Events) :
         (IsFallback(Events[i]) /\ ~Events[i].ok) =>
           /\ i + 1 = Len(Events)
           /\ Events[i + 1].kind = "log"

C22_Witness ==
  /\ Handled
  /\ ~callArg.ctx.helpers
  /\ \E i \in 1..Len(Events) : IsFallback(Events[i]) /\ ~Events[i].ok

(***************************************************************************)
(* C27.  Each error category produced by categorizeError maps to its own   *)
(* fixed user-facing message: two errors classified into different         *)
(* categories never receive the same message template from                 *)
(* sendErrorResponse.                                                      *)
(***************************************************************************)
TemplateOf(error) == responseMessage(categorizeError(error), NoErrorId).template

C27_DistinctCategoriesDistinctTemplates ==
  Handled =>
    \A other \in HandledErrors :
      categorizeError(other) # categorizeError(callArg.error)
        => TemplateOf(other) # TemplateOf(callArg.error)

(***************************************************************************)
(* C28.  Every error caught by errorMiddleware is logged exactly once by   *)
(* the error responder with a freshly generated error-id and its context,  *)
(* and this log entry is written before any send, edit or answer operation *)
(* of the error response is attempted.                                     *)
(***************************************************************************)
HandlerEntries == {i \in 1..Len(Events) : Events[i].op = "bot_error_handler"}

C28_LoggedOnceBeforeResponse ==
  Handled =>
    /\ Cardinality(HandlerEntries) = 1
    /\ \A i \in HandlerEntries :
         /\ Events[i].kind = "log"
         /\ Events[i].text.errorId = generateErrorId(now, callArg.random)
         /\ Events[i].context = callArg.ctx.updateType
         /\ \A j \in 1..Len(Events) : Events[j].kind = "send" => i < j

C28_Witness ==
  /\ Handled
  /\ Cardinality({j \in 1..Len(Events) : Events[j].kind = "send"}) >= 3

(***************************************************************************)
(* C25.  While a (user, operation) key is blocked and the block-expiry is  *)
(* not yet reached, every request for that key is rejected with the        *)
(* remaining seconds ceil((blockedUntil - now)/1000), and the rejection    *)
(* leaves the window unchanged: no timestamp is appended or pruned and the *)
(* block-expiry is not extended; the request that triggers a block is      *)
(* itself not recorded as a timestamp.  "Rejected" is the limiter's        *)
(* decision (the branch it takes).                                         *)
(***************************************************************************)
WindowOf(store, k) == IF k \in DOMAIN store THEN store[k] ELSE NewWindow

\* s is the least whole number of seconds that covers ms milliseconds
CeilSeconds(s, ms) == s * 1000 >= ms /\ (s - 1) * 1000 < ms

IsSuffix(short, long) ==
  \E n \in 0..Len(long) : short = SubSeq(long, n + 1, Len(long))

\* the request the step has decided for key k, if it has decided one
DecidedFor(k) ==
  /\ k \in DOMAIN rlLog'
  /\ Len(rlLog'[k]) = Len(LogOf(k)) + 1

BlockedRequestFrame(k) ==
  LET before == WindowOf(rateLimitStore, k)
      entry == rlLog'[k][Len(rlLog'[k])]
  IN  /\ BlockActive(before, now) =>
           /\ entry.d = "blocked"
           /\ CeilSeconds(entry.remaining, (before.blockedUntil - now) * TickMs)
           /\ rateLimitStore' = rateLimitStore
      /\ entry.d = "limited" =>
           /\ IsSuffix(rateLimitStore'[k].requests, before.requests)
           /\ rateLimitStore'[k].blocked

C25_BlockedRequestsLeaveWindow ==
  [][\A k \in DOMAIN rlLog' : DecidedFor(k) => BlockedRequestFrame(k)]_vars

\* a request rejected two ticks before the expiry of the block
C25_Witness ==
  /\ rlLast.decision = "blocked"
  /\ rlLast.remaining = 2

(***************************************************************************)
(* C26.  Every update from an identified user that is a slash command, a   *)
(* callback query or free (non-slash) text is assigned an operation        *)
(* category by determineRateLimit and is therefore subject to the          *)
(* allow/reject decision; only updates with no user identity or of another *)
(* kind pass through the rate limiter untouched.                           *)
(***************************************************************************)
IdentifiedUser(ctx) == RateUserId(ctx) # 0

SlashCommand(ctx) == ctx.text # NoText /\ StartsWithSlash(ctx.text)

CallbackQuery(ctx) == ctx.cb # NoCb

FreeText(ctx) == ctx.text # NoText /\ ~StartsWithSlash(ctx.text)

C26_EveryRequestCategorized ==
  (callRet.done /\ IdentifiedUser(callArg)) =>
    ((SlashCommand(callArg) \/ CallbackQuery(callArg) \/ FreeText(callArg))
       <=> callRet.value.operation \in Operations)

(***************************************************************************)
(* C29.  As claimed: results stored by search expire after the configured  *)
(* TTL: the cache entry is written with expiry = time of storing + TTL, an *)
(* identical search made before that expiry issues no external request,    *)
(* and the first identical search made after that expiry issues a new      *)
(* external request.                                                       *)
(***************************************************************************)
StoredThenRepeated ==
  /\ searchPrev.called
  /\ searchLast.called
  /\ searchPrev.cacheWritten
  /\ searchPrev.query = searchLast.query
  /\ searchPrev.options = searchLast.options

ExpiryOfStored == searchPrev.t + CacheTtl

WrittenWithTtl ==
  (searchLast.called /\ searchLast.cacheWritten) =>
    /\ KeyOfCall(searchLast) \in DOMAIN cache
    /\ cache[KeyOfCall(searchLast)].expiresAt = searchLast.t + CacheTtl

RequestAfterExpiry ==
  (StoredThenRepeated /\ searchLast.t > ExpiryOfStored) => searchLast.requested

C29_StoredResultsExpire ==
  /\ WrittenWithTtl
  /\ (StoredThenRepeated /\ searchLast.t < ExpiryOfStored) => ~searchLast.requested
  /\ RequestAfterExpiry

(***************************************************************************)
(* C29, amended.  The same, where the identical search made before the     *)
(* expiry issues no external request when its cache read succeeds.         *)
(***************************************************************************)
C29_StoredResultsExpireWhenRead ==
  /\ WrittenWithTtl
  /\ (StoredThenRepeated /\ searchLast.t < ExpiryOfStored /\ searchLast.readOk)
       => ~searchLast.requested
  /\ RequestAfterExpiry

\* a stored result, searched again after its expiry and requested anew
C29_Witness ==
  /\ StoredThenRepeated
  /\ searchLast.t > ExpiryOfStored
  /\ searchLast.requested
  /\ searchLast.cacheWritten

(***************************************************************************)
(* C30.  A raw element that yields neither cleaned free text nor cleaned   *)
(* primary-script text is discarded by normalizeHadithData: it returns     *)
(* nothing for that element, no record is inserted or updated in storage   *)
(* for it, and it does not appear in the search results.  Element i of a   *)
(* response is given the identifier uuids + i, which any record made of it *)
(* carries.                                                                *)
(***************************************************************************)
YieldsNoText(raw) ==
  /\ cleanText(OrElse(raw.hadith, OrElse(raw.text, ""))) = ""
  /\ cleanArabicText(OrElse(raw.arabic, OrElse(raw.hadith, ""))) = ""

Textless(items) == {i \in 1..Len(items) : YieldsNoText(items[i])}

ResponseProcessed == ~procLast.called /\ procLast'.called /\ procLast'.response.isArray

ResultIds == {procLast'.result[j].id : j \in 1..Len(procLast'.result)}

WrittenIds == {r.id : r \in hadiths' \ hadiths}

C30_TextlessElementsDiscarded ==
  [][ResponseProcessed =>
       LET items == procLast'.response.items
       IN  /\ \A i \in Textless(items) :
                /\ uuids + i \notin ResultIds
                /\ uuids + i \notin WrittenIds
           /\ Len(procLast'.result) <= Len(items) - Cardinality(Textless(items))
           /\ Textless(items) = 1..Len(items) => hadiths' = hadiths]_vars

\* a response whose first element has no text and whose second is saved
C30_Witness ==
  /\ procLast.called
  /\ procLast.response.isArray
  /\ Len(procLast.response.items) = 2
  /\ YieldsNoText(procLast.response.items[1])
  /\ ~procLast.response.items[1].isNull
  /\ Len(procLast.result) = 1

(***************************************************************************)
(* C24.  Under any interleaving of concurrent normalize-and-save calls     *)
(* (from concurrently processed updates) that carry the same               *)
(* external-source ID, storage never holds more than one record with that  *)
(* external-source ID.                                                     *)
(***************************************************************************)
C24_OneRecordPerDorarId ==
  \A dorarId \in 1..2 : Cardinality(RowsWithDorarId(hadiths, dorarId)) <= 1

\* two calls with the same dorarId that both found no row and have both
\* written: one row is stored, the create of the other was rejected
C24_Witness ==
  \E p, q \in Saves :
    /\ p # q
    /\ callArg[p].data.dorarId = 2
    /\ callArg[q].data.dorarId = 2
    /\ callArg[p].pc = "done" /\ callArg[q].pc = "done"
    /\ ~callArg[p].existing /\ ~callArg[q].existing
    /\ callArg[p].saved /\ ~callArg[q].saved
    /\ Cardinality(RowsWithDorarId(hadiths, 2)) = 1

(***************************************************************************)
(* C23.  For every update the stages run in the order logging, auth gate,  *)
(* rate limiter, feature dispatch: a handler executes only after the auth  *)
(* gate has run and called next() and after the rate limiter has run and   *)
(* called next() (having allowed the update or passed it through), and an  *)
(* error raised by a handler is handed to the error responder, which logs  *)
(* it and sends an error text to the user.                                 *)
(***************************************************************************)
Trace == callRet.trace

StagesRun == [i \in 1..Len(Trace) |-> Trace[i].stage]

FixedOrder == <<"logging", "auth", "rateLimit", "error", "handler", "catch">>

IsPrefix(s, t) == Len(s) <= Len(t) /\ \A i \in 1..Len(s) : s[i] = t[i]

HandlerRan == \E i \in 1..Len(Trace) : Trace[i].stage = "handler"

HandlerRaised ==
  \E i \in 1..Len(Trace) : Trace[i].stage = "handler" /\ ~Trace[i].passed

\* the stage ran before the handler and called next()
PassedBeforeHandler(stage) ==
  \E i, k \in 1..Len(Trace) :
    /\ i < k
    /\ Trace[i].stage = stage /\ Trace[i].passed
    /\ Trace[k].stage = "handler"

\* the responder logged the error and tried to send an error text
Responded ==
  /\ Len(callRet.events) > 1
  /\ callRet.events[1].kind = "log"
  /\ callRet.events[1].op = "bot_error_handler"
  /\ \E i \in 2..Len(callRet.events) : callRet.events[i].kind = "send"
  /\ ~callRet.raised

C23_StagesInFixedOrder ==
  /\ IsPrefix(StagesRun, FixedOrder)
  /\ \A i \in 1..Len(Trace) :
       (i < Len(Trace) /\ Trace[i].stage # "handler") => Trace[i].passed
  /\ HandlerRan => PassedBeforeHandler("auth") /\ PassedBeforeHandler("rateLimit")
  /\ HandlerRaised => callRet.pc = "catch" \/ Responded
  /\ (callRet.pc = "idle" /\ Len(Trace) > 0) => callRet.done

\* a handler raised after the limiter let the update through, and the
\* responder answered
C23_Witness ==
  /\ callRet.done
  /\ HandlerRaised
  /\ Responded
  /\ \E i \in 1..Len(Trace) :
       Trace[i].stage = "rateLimit" /\ Trace[i].decision = "allowed"

(***************************************************************************)
(* C31.  normalizeGrade looks a non-empty string up in the fixed table     *)
(* without regard to case: every spelling of a grade of the table gives    *)
(* the canonical label of that grade, and every other string is returned   *)
(* trimmed and otherwise unchanged.                                        *)
(***************************************************************************)
GradeLabels == {"ar:sahih", "ar:hasan", "ar:daif", "ar:mawdu"}

\* the entries of the table for a label, in any case
Spellings(label) ==
  CASE label = "ar:sahih" -> {"ar:sahih", "sahih", "SAHIH", "Sahih"}
    [] label = "ar:hasan" -> {"ar:hasan", "hasan"}
    [] label = "ar:daif"  -> {"ar:daif", "weak"}
    [] label = "ar:mawdu" -> {"ar:mawdu", "fabricated"}

GradeNormalized == callRet.done /\ callArg.isString /\ callArg.chars # <<>>

LabelsOf(chars) ==
  {label \in GradeLabels : Len(chars) = 1 /\ chars[1] \in Spellings(label)}

C31_GradeLookupOrTrimmed ==
  GradeNormalized =>
    LET word == Trim(callArg.chars)
    IN  IF LabelsOf(word) # {}
          THEN \E label \in LabelsOf(word) : callRet.value = Str(<<label>>)
          ELSE callRet.value = Str(word)

\* the same for the strings that name no property of Object.prototype
C31_OwnKeysOnly ==
  (GradeNormalized /\ ~Names(Trim(toLowerCase(callArg.chars)), ObjectPrototype))
    => C31_GradeLookupOrTrimmed

(***************************************************************************)
(* C32.  The isVerified flag of a normalized record is true exactly when   *)
(* the cleaned source label stored in the record contains one of the eight *)
(* canonical collection names.                                             *)
(***************************************************************************)
SourceNormalized == callRet.done

StoredLabelNamesCollection ==
  \E verified \in verifiedSources : Includes(callRet.value.source.chars, verified)

C32_VerifiedIffCleanedLabelNamesCollection ==
  SourceNormalized => (callRet.value.isVerified <=> StoredLabelNamesCollection)

\* the flag is never set on a label that names no collection
C32_VerifiedOnlyIfNamed ==
  SourceNormalized => (callRet.value.isVerified => StoredLabelNamesCollection)

(***************************************************************************)
(* C33.  Without a force-reset, for every (user, operation) key with limit *)
(* L and window W, the requests of the key that rateLimitMiddleware allows *)
(* within any interval of length W number at most L, under every           *)
(* interleaving of the concurrently processed updates.                     *)
(***************************************************************************)
\* the allowed requests of a key in the interval of length window ending at
\* the i-th decision
AllowedInWindow(h, i) ==
  {j \in 1..Len(h) :
     /\ h[j].d = "allowed"
     /\ h[j].t <= h[i].t
     /\ h[i].t - h[j].t < h[i].window}

C33_AtMostLimitPerWindow ==
  \A k \in DOMAIN rlLog :
    \A i \in 1..Len(rlLog[k]) :
      Cardinality(AllowedInWindow(rlLog[k], i)) <= rlLog[k][i].limit

\* a request is limited while the chain of the request allowed before it,
\* at the same time, has not returned yet
C33_Witness ==
  \E p, q \in InFlight :
    /\ p # q
    /\ callArg[p].ctx = callArg[q].ctx
    /\ callArg[p].pc = "handler"
    /\ callArg[q].pc = "done"
    /\ callArg[q].arrival = EmptyMap
    /\ callArg[p].arrival = EmptyMap
    /\ rlLast.decision = "limited"
    /\ \E k \in DOMAIN rlLog :
         /\ Len(rlLog[k]) = 2
         /\ rlLog[k][1].t = rlLog[k][2].t
         /\ rlLog[k][1].d = "allowed"

(***************************************************************************)
(* C34.  An update that rateLimitMiddleware decides to reject (active      *)
(* block, or limit reached) is not passed on to the downstream chain,      *)
(* whatever context the auth gate left, the context without helpers of a   *)
(* gate that failed open included.                                         *)
(***************************************************************************)
RejectedStages ==
  {i \in 1..Len(Trace) :
     Trace[i].stage = "rateLimit" /\ Trace[i].decision \in {"blocked", "limited"}}

C34_RejectedNeverDownstream ==
  \A i \in RejectedStages : ~Trace[i].passed /\ ~HandlerRan

\* the same for the contexts that carry the helpers
C34_RejectedWithHelpersNeverDownstream ==
  callArg # NotCalled =>
    (callArg.helpers => \A i \in RejectedStages : ~Trace[i].passed /\ ~HandlerRan)

(***************************************************************************)
(* C35.  For every update, authMiddleware invokes the downstream chain at  *)
(* most once, also when the downstream chain itself fails with an error.   *)
(***************************************************************************)
C35_NextAtMostOnce == authLast.next <= 1

\* the same for the calls whose downstream chain raises nothing
C35_NextAtMostOnceUnlessDownstreamFails ==
  (authLast.next > 1) => (authLast.caught /\ authLast.helpers)

(***************************************************************************)
(* C36.  The windows of distinct users are independent: no window is       *)
(* checked, counted in, pruned or blocked by the requests of two different *)
(* senders, whether their updates passed the auth gate or reached the      *)
(* limiter on a gate that failed open.                                     *)
(***************************************************************************)
C36_WindowsOfOneSender ==
  \A k \in DOMAIN callArg.senders : Cardinality(callArg.senders[k]) <= 1

\* the same while the id column of no row equals a platform ID
C36_WindowsOfOneSenderDisjointIds ==
  (\A k \in DOMAIN callArg.senders : k[1] # 1 \/ callArg.senders[k] = {1})
    => C36_WindowsOfOneSender

(***************************************************************************)
(* C37.  The periodic sweep is invisible to the decisions of the limiter:  *)
(* with every window no longer than the max-age, each request of a         *)
(* sequence gets the same decision from rateLimitMiddleware whether or not *)
(* cleanupRateLimitStore ran at any moments before it.                     *)
(***************************************************************************)
WindowsWithinMaxAge ==
  \A ctx \in ConcurrentContexts : determineRateLimit(ctx).window <= MaxAge

C37_SweepInvisibleToDecisions ==
  (WindowsWithinMaxAge /\ callRet.done) =>
    callRet.value.swept = callRet.value.unswept

\* a request decided on a window that the sweep had pruned or evicted, while
\* the store that is never swept still holds the old one
C37_Witness ==
  /\ WindowsWithinMaxAge
  /\ callRet.done
  /\ callRet.value.differed
  /\ callRet.value.swept.decision = "allowed"
  /\ rateLimitStore # callArg.unswept

(***************************************************************************)
(* C38.  Every record getRandom returns when called with non-empty filters *)
(* satisfies those filters, whether it comes from storage or from the      *)
(* external search it falls back to.                                       *)
(***************************************************************************)
FiltersSet == callArg.filters.source # "" \/ callArg.filters.grade # ""

ReturnedRecord == callRet.value.result.value

C38_ReturnedRecordSatisfiesFilters ==
  (RandomCalled /\ FiltersSet /\ callRet.value.result.found)
    => MatchesFilters(ReturnedRecord, callArg.filters)

\* the same for the records that were in storage when the call was made
C38_StoredRecordSatisfiesFilters ==
  (RandomCalled /\ FiltersSet /\ callRet.value.result.found
     /\ ReturnedRecord \in callArg.rows)
    => MatchesFilters(ReturnedRecord, callArg.filters)

(***************************************************************************)
(* C39.  When the storage write in ctx.setUserPreference fails, the call   *)
(* returns false and the session's preference map is as it was before the  *)
(* call; when the write succeeds, the call returns true and both storage   *)
(* and the session map hold the new value.                                 *)
(***************************************************************************)
PreferenceSet == callRet.done

WriteFailed == PreferenceSet /\ ~callRet.value.writeOk

WriteSucceeded == PreferenceSet /\ callRet.value.writeOk

HoldNewValue ==
  /\ <<callRet.value.key, callRet.value.value>> \in callArg.stored
  /\ callArg.session.preferences[callRet.value.key] = callRet.value.value

C39_FailedWriteLeavesSessionMap ==
  /\ WriteFailed => /\ callRet.value.returned = FALSE
                    /\ callArg.session = callRet.value.sessionBefore
  /\ WriteSucceeded => callRet.value.returned = TRUE /\ HoldNewValue

\* what the call does keep: a failed write returns false and leaves storage
\* as it was, a successful one returns true with both holding the new value
C39_FailedWriteLeavesStorage ==
  /\ WriteFailed => /\ callRet.value.returned = FALSE
                    /\ callArg.stored = callRet.value.storedBefore
  /\ WriteSucceeded => callRet.value.returned = TRUE /\ HoldNewValue

====
